---- MODULE Spec2Model ----
(***************************************************************************)
(* The IVR discovery engine of cx-navigator: the discovery job store       *)
(* (src/src/convex/discovery.ts) and the depth-first crawl action          *)
(* (src/src/convex/discoveryActions.ts), with the telephony sessions the   *)
(* crawl drives.                                                           *)
(***************************************************************************)
EXTENDS Integers, Sequences, FiniteSets, TLC

(***************************************************************************)
(* Bounds of the model.                                                    *)
(***************************************************************************)
MaxJobs == 2
MaxInvocations == 2
MaxNodes == 6
MaxFactoryCalls == 2
MaxResumeCalls == 3
MaxTextLen == 2
MaxFingerprintCalls == 2
MaxPhrases == 2
MaxExtractCalls == 1
MaxSessionOps == 4
MaxServerRequests == 3
MaxTranscripts == 2

(***************************************************************************)
(* Program constants and sentinels.                                        *)
(***************************************************************************)
\* const maxDepth = 5 (runDiscovery)
maxDepth == 5
\* an absent v.optional(v.id("ivr_nodes")): parentId / linkedNodeId undefined
NoNode == << >>
\* an absent optional string (waitingFor, platform, metadata.dtmf)
Undefined == "undefined"

Projects == {"p1", "p2"}

(***************************************************************************)
(* The texts the model runs on.  An entry point is a pasted transcript     *)
(* (input type "text") or a phone number (every input type other than      *)
(* "text" and "simulated", written "phone").                               *)
(***************************************************************************)
tMenu == "Press 1 to pay. Press 3 to repeat. Press 2 for PIN reset. Press 9 to exit."
tSelPin == "(Simulated) You selected PIN reset."
tInvalidOption == "Invalid option."
tInvalidSelection == "Invalid selection. Please try again."
tPin == "Please enter your PIN"
tTier1 == "Press 1 for tier 1."
tTier2 == "Press 1 for tier 2."
tTier3 == "Press 1 for tier 3."
tTier4 == "Press 1 for tier 4."
tTier5 == "Press 1 for tier 5."
tTier6 == "Press 1 for tier 6."
tTier7 == "Press 1 for tier 7."
phonePin == "+18005550199"
tWelcome == "Press 1 for Billing, press 2 for Support, press 0 for an agent"
phoneTree == "+18005550100"
tRoot == "Press 1 for Billing. Press 2 for Support."
tBilling == "Press 1 for balance. Press 2 for payments."
tBalance == "Your balance is zero."
tPayments == "Payments are closed."
tSupport == "Press 9 for the main menu."
phoneTiers == "+18005550111"

Tiers == <<tTier1, tTier2, tTier3, tTier4, tTier5, tTier6, tTier7>>

\* createJob's (entryPoint, inputType) arguments
JobInputs == { <<tMenu, "text">>, <<phonePin, "phone">> }

\* createJob's arguments in simulated mode: the phone number, or the welcome
\* prompt given as the entry point
ScenarioInputs == { <<phonePin, "simulated">>, <<tWelcome, "simulated">> }

\* createJob's arguments for the phone numbers of two IVRs that ask for no
\* input: a tree of menus with a way back to the main menu, and a chain of menus
CrawlInputs == { <<phoneTree, "phone">>, <<phoneTiers, "phone">> }

\* the human input of resumeJob / continueDiscovery (v.string(): "" is allowed)
Inputs == {"", "7"}

\* process.env.TELEPHONY_BACKEND_URL: unset, the Convex site, a telephony backend
BackendUrls == {"", "https://app.convex.site", "https://ivr.example"}

(***************************************************************************)
(* Pure helpers of discoveryActions.ts, as their graphs on the texts above *)
(* (the values are those the TypeScript functions return on these texts).  *)
(***************************************************************************)
\* fingerprintPrompt: "v1:" + hex(|32-bit rolling hash of the normalized text|)
fingerprintPrompt(text) ==
  CASE text = tMenu -> "v1:4a8b8fa2"
    [] text = tSelPin -> "v1:28b5bc2c"
    [] text = tInvalidOption -> "v1:16bb1ad4"
    [] text = tInvalidSelection -> "v1:67692dc"
    [] text = tPin -> "v1:22b6346c"
    [] text = tTier1 -> "v1:2df2a9b4"
    [] text = tTier2 -> "v1:2df2a9b5"
    [] text = tTier3 -> "v1:2df2a9b6"
    [] text = tTier4 -> "v1:2df2a9b7"
    [] text = tTier5 -> "v1:2df2a9b8"
    [] text = tTier6 -> "v1:2df2a9b9"
    [] text = tTier7 -> "v1:2df2a9ba"
    [] text = phonePin -> "v1:77ff4451"
    [] text = tWelcome -> "v1:8bcff0f"
    [] text = tRoot -> "v1:802572b"
    [] text = tBilling -> "v1:7d7e8a6"
    [] text = tBalance -> "v1:589844a5"
    [] text = tPayments -> "v1:17f0033"
    [] text = tSupport -> "v1:1736b776"

\* extractMenuOptions: the matches of the four patterns, pattern by pattern
extractMenuOptions(text) ==
  CASE text = tMenu ->
         << [dtmf |-> "1", label |-> "pay"], [dtmf |-> "3", label |-> "repeat"],
            [dtmf |-> "2", label |-> "PIN reset"], [dtmf |-> "9", label |-> "exit"] >>
    [] text = tTier1 -> << [dtmf |-> "1", label |-> "tier 1"] >>
    [] text = tTier2 -> << [dtmf |-> "1", label |-> "tier 2"] >>
    [] text = tTier3 -> << [dtmf |-> "1", label |-> "tier 3"] >>
    [] text = tTier4 -> << [dtmf |-> "1", label |-> "tier 4"] >>
    [] text = tTier5 -> << [dtmf |-> "1", label |-> "tier 5"] >>
    [] text = tTier6 -> << [dtmf |-> "1", label |-> "tier 6"] >>
    [] text = tTier7 -> << [dtmf |-> "1", label |-> "tier 7"] >>
    [] text = tWelcome ->
         << [dtmf |-> "1", label |-> "Billing"], [dtmf |-> "2", label |-> "Support"],
            [dtmf |-> "0", label |-> "an agent"], [dtmf |-> "2", label |-> "Billing"],
            [dtmf |-> "0", label |-> "Support"] >>
    [] text = tRoot ->
         << [dtmf |-> "1", label |-> "Billing"], [dtmf |-> "2", label |-> "Support"] >>
    [] text = tBilling ->
         << [dtmf |-> "1", label |-> "balance"], [dtmf |-> "2", label |-> "payments"] >>
    [] text = tSupport -> << [dtmf |-> "9", label |-> "the main menu"] >>
    [] text \in {tSelPin, tInvalidOption, tInvalidSelection, tPin, phonePin,
                 tBalance, tPayments} -> << >>

\* parseTranscriptFlow(text).branches: one branch per "Press <d> for <label>"
parseTranscriptFlow(text) ==
  CASE text = tMenu -> << [dtmf |-> "2", content |-> tSelPin] >>
    [] text \in {tPin, phonePin} -> << >>

\* a test that finds every prompt to ask for input (a variant of requiresInput)
everyPromptNeedsInput(text) == TRUE

\* lower.includes("enter") || lower.includes("pin")
requiresInput(text) == text \in {tMenu, tSelPin, tPin}

\* path.join(">")
RECURSIVE joinPath(_)
joinPath(path) ==
  IF Len(path) = 0 THEN ""
  ELSE IF Len(path) = 1 THEN path[1]
  ELSE path[1] \o ">" \o joinPath(Tail(path))

Last(s) == s[Len(s)]
Front(s) == SubSeq(s, 1, Len(s) - 1)

(***************************************************************************)
(* normalizeText and fingerprintPrompt on a text given character by        *)
(* character (a sequence of one-character strings), computed as the        *)
(* TypeScript computes them.  The numbers are signed 32-bit integers: the  *)
(* shift wraps, and hash & hash brings (hash << 5) - hash + char back into *)
(* the 32-bit range.                                                       *)
(***************************************************************************)
LowerCase == << "a", "b", "c", "d", "e", "f", "g", "h", "i", "j", "k", "l", "m",
                "n", "o", "p", "q", "r", "s", "t", "u", "v", "w", "x", "y", "z" >>
UpperCase == << "A", "B", "C", "D", "E", "F", "G", "H", "I", "J", "K", "L", "M",
                "N", "O", "P", "Q", "R", "S", "T", "U", "V", "W", "X", "Y", "Z" >>
DigitChars == << "0", "1", "2", "3", "4", "5", "6", "7", "8", "9" >>
WhiteSpace == {" "}

Range(s) == {s[k] : k \in 1..Len(s)}
IndexIn(s, ch) == CHOOSE k \in 1..Len(s) : s[k] = ch
LowerCaseLetters == Range(LowerCase)
UpperCaseLetters == Range(UpperCase)
Digits == Range(DigitChars)

\* String.prototype.charCodeAt on the characters in use
charCodeAt(ch) ==
  IF ch \in LowerCaseLetters THEN 96 + IndexIn(LowerCase, ch)
  ELSE IF ch \in UpperCaseLetters THEN 64 + IndexIn(UpperCase, ch)
  ELSE IF ch \in Digits THEN 47 + IndexIn(DigitChars, ch)
  ELSE CASE ch = " " -> 32 [] ch = "!" -> 33 [] ch = "+" -> 43 [] ch = "," -> 44
         [] ch = "." -> 46

\* text.toLowerCase()
toLowerCase(text) ==
  [k \in 1..Len(text) |->
     IF text[k] \in UpperCaseLetters THEN LowerCase[IndexIn(UpperCase, text[k])]
     ELSE text[k]]

\* the characters /[^a-z0-9]/ does not match
isAZ09(ch) == ch \in LowerCaseLetters \/ ch \in Digits

\* .trim()
RECURSIVE trim(_)
trim(text) ==
  IF Len(text) = 0 THEN text
  ELSE IF Head(text) \in WhiteSpace THEN trim(Tail(text))
  ELSE IF Last(text) \in WhiteSpace THEN trim(Front(text))
  ELSE text

\* a normalizeText that does not lower-case (a variant of normalizeText)
normalizeKeepCase(text) == trim(SelectSeq(text, isAZ09))

\* text.toLowerCase().replace(/[^a-z0-9]/g, "").trim()
normalizeText(text) == trim(SelectSeq(toLowerCase(text), isAZ09))

MaxInt32 == 2147483647
MinInt32 == -2147483647 - 1

\* a + b and a - b brought back into the signed 32-bit range (ToInt32)
Add32(a, b) ==
  IF a >= 0 /\ b >= 0 /\ a > MaxInt32 - b THEN (a + MinInt32) + (b + MinInt32)
  ELSE IF a < 0 /\ b < 0 /\ a < MinInt32 - b THEN (a - MinInt32) + (b - MinInt32)
  ELSE a + b

Sub32(a, b) == IF b = MinInt32 THEN Add32(a, MinInt32) ELSE Add32(a, 0 - b)

\* hash << 5: the low 27 bits of hash, shifted, as a signed 32-bit integer
shl5(hash) ==
  LET r == hash % 134217728
  IN  IF r >= 67108864 THEN (r - 134217728) * 32 ELSE r * 32

\* a step that does not truncate to 32 bits until the sum overflows them (a
\* variant of hashStep: saturation in place of wrap-around)
hashStepSaturating(hash, char) ==
  IF hash > (MaxInt32 - char) \div 31 THEN MaxInt32 ELSE 31 * hash + char

\* hash = (hash << 5) - hash + char; hash = hash & hash
hashStep(hash, char) == Add32(Sub32(shl5(hash), hash), char)

\* the for loop over normalized, from index i on
RECURSIVE hashLoop(_, _, _)
hashLoop(hash, normalized, i) ==
  IF i > Len(normalized) THEN hash
  ELSE hashLoop(hashStep(hash, charCodeAt(normalized[i])), normalized, i + 1)

HexDigits == << "0", "1", "2", "3", "4", "5", "6", "7", "8", "9",
                "a", "b", "c", "d", "e", "f" >>

\* n.toString(16) for an integer n >= 0
RECURSIVE toString16(_)
toString16(n) ==
  IF n < 16 THEN HexDigits[n + 1]
  ELSE toString16(n \div 16) \o HexDigits[(n % 16) + 1]

\* Math.abs(hash).toString(16); Math.abs(-2^31) is 2^31, a double
absToString16(hash) ==
  IF hash = MinInt32 THEN "80000000"
  ELSE IF hash < 0 THEN toString16(0 - hash)
  ELSE toString16(hash)

\* fingerprintPrompt, on the characters of the text
fingerprintOfChars(text) ==
  LET normalized == normalizeText(text)
  IN  IF Len(normalized) = 0 THEN "empty"
      ELSE "v1:" \o absToString16(hashLoop(0, normalized, 1))

\* the characters of texts given to fingerprintPrompt: every text of at most
\* MaxTextLen characters over Alphabet, and some prompts
Alphabet == {"A", "a", "."}

cSales == << "P", "r", "e", "s", "s", " ", "1", " ", "f", "o", "r", " ",
             "S", "a", "l", "e", "s", "." >>
cSalesPlain == << "p", "r", "e", "s", "s", " ", "1", " ", "f", "o", "r", " ",
                  "s", "a", "l", "e", "s" >>
cPin == << "P", "l", "e", "a", "s", "e", " ", "e", "n", "t", "e", "r", " ",
           "y", "o", "u", "r", " ", "P", "I", "N" >>
cPhonePin == << "+", "1", "8", "0", "0", "5", "5", "5", "0", "1", "9", "9" >>
cHold == << " ", "H", "o", "l", "d", "!", " " >>

Prompts == {cSales, cSalesPlain, cPin, cPhonePin, cHold}

TextsUpTo(n) == UNION {[1..m -> Alphabet] : m \in 0..n}

(***************************************************************************)
(* extractMenuOptions on a text given word by word: a sequence of tokens,  *)
(* each a word or a punctuation mark, standing for the string in which the *)
(* words are separated by one space and a punctuation mark follows the     *)
(* word before it directly.  The four patterns are matched as matchAll     *)
(* matches them, on tokens: from left to right, the next search starting   *)
(* where the last match ended; [^.,;]+ takes tokens up to the next of      *)
(* . , ; and [^.,;]+? as few tokens as let the rest of the pattern match.  *)
(***************************************************************************)
Punctuation == {".", ",", ";", "!", "?"}
\* the characters [^.,;] excludes
LabelEnd == {".", ",", ";"}

\* the keywords, matched case-insensitively (flag i)
isPress(t) == t \in {"Press", "press"}
isFor(t) == t \in {"For", "for"}
isTo(t) == t \in {"To", "to"}
isOr(t) == t \in {"Or", "or"}
isSay(t) == t \in {"Say", "say"}

\* the string of tokens a to b of a text
RECURSIVE joinTokens(_, _, _)
joinTokens(tokens, a, b) ==
  IF a > b THEN ""
  ELSE IF a = b THEN tokens[a]
  ELSE tokens[a] \o (IF tokens[a + 1] \in Punctuation THEN "" ELSE " ")
         \o joinTokens(tokens, a + 1, b)

\* a label that runs to the end of the text (a variant of greedyEnd)
toEndOfText(tokens, s) == Len(tokens)

\* the last token of the run of [^.,;] tokens that starts at s
RECURSIVE greedyEnd(_, _)
greedyEnd(tokens, s) ==
  IF s < Len(tokens) /\ tokens[s + 1] \notin LabelEnd THEN greedyEnd(tokens, s + 1)
  ELSE s

\* ,?\s+press\s+(\d) right after token q: the index of the digit, or 0
pressDigitAfter(tokens, q) ==
  LET r == IF q < Len(tokens) /\ tokens[q + 1] = "," THEN q + 1 ELSE q
  IN  IF r + 2 <= Len(tokens) /\ isPress(tokens[r + 1]) /\ tokens[r + 2] \in Digits
        THEN r + 2
      ELSE 0

\* the end of the shortest run of [^.,;] tokens from s on (tried from q on)
\* after which ,?\s+press\s+(\d) matches, or 0
RECURSIVE lazyEnd(_, _, _)
lazyEnd(tokens, s, q) ==
  IF q > Len(tokens) \/ tokens[q] \in LabelEnd THEN 0
  ELSE IF pressDigitAfter(tokens, q) # 0 THEN q
  ELSE lazyEnd(tokens, s, q + 1)

\* the option of a match with groups g1 and g2:
\* /\d/.test(g1) ? {dtmf: g1, label: g2.trim()} : {dtmf: g2, label: g1.trim()}
optionOf(g1HasDigit, g1, g2) ==
  IF g1HasDigit THEN [dtmf |-> g1, label |-> g2] ELSE [dtmf |-> g2, label |-> g1]

NoMatch == [found |-> FALSE]

\* a match of pattern number n that starts at token p
matchAt(n, tokens, p) ==
  LET len == Len(tokens) IN
  IF n = 1 THEN
    \* /Press\s+(\d)\s+(?:for|to)\s+([^.,;]+)/gi
    IF /\ p + 3 <= len /\ isPress(tokens[p]) /\ tokens[p + 1] \in Digits
       /\ (isFor(tokens[p + 2]) \/ isTo(tokens[p + 2]))
       /\ tokens[p + 3] \notin Punctuation
      THEN LET e == greedyEnd(tokens, p + 3)
           IN  [found |-> TRUE, next |-> e + 1,
                option |-> optionOf(TRUE, tokens[p + 1], joinTokens(tokens, p + 3, e))]
    ELSE NoMatch
  ELSE IF n = 2 \/ n = 3 THEN
    \* /For\s+([^.,;]+?),?\s+press\s+(\d)/gi and /To\s+([^.,;]+?),?\s+press\s+(\d)/gi
    IF /\ p + 1 <= len
       /\ IF n = 2 THEN isFor(tokens[p]) ELSE isTo(tokens[p])
       /\ tokens[p + 1] \notin Punctuation
       /\ lazyEnd(tokens, p + 1, p + 1) # 0
      THEN LET q == lazyEnd(tokens, p + 1, p + 1)
               d == pressDigitAfter(tokens, q)
           IN  [found |-> TRUE, next |-> d + 1,
                option |-> optionOf(\E k \in (p + 1)..q : tokens[k] \in Digits,
                                    joinTokens(tokens, p + 1, q), tokens[d])]
    ELSE NoMatch
  ELSE
    \* /Press\s+or\s+say\s+(\d)\s+for\s+([^.,;]+)/gi
    IF /\ p + 5 <= len /\ isPress(tokens[p]) /\ isOr(tokens[p + 1]) /\ isSay(tokens[p + 2])
       /\ tokens[p + 3] \in Digits /\ isFor(tokens[p + 4])
       /\ tokens[p + 5] \notin Punctuation
      THEN LET e == greedyEnd(tokens, p + 5)
           IN  [found |-> TRUE, next |-> e + 1,
                option |-> optionOf(TRUE, tokens[p + 3], joinTokens(tokens, p + 5, e))]
    ELSE NoMatch

\* text.matchAll(pattern), from token p on
RECURSIVE matchAll(_, _, _)
matchAll(n, tokens, p) ==
  IF p > Len(tokens) THEN << >>
  ELSE LET m == matchAt(n, tokens, p)
       IN  IF m.found THEN <<m.option>> \o matchAll(n, tokens, m.next)
           ELSE matchAll(n, tokens, p + 1)

\* extractMenuOptions, on the tokens of the text: for (const pattern of patterns)
extractOptionsOfTokens(tokens) ==
  matchAll(1, tokens, 1) \o matchAll(2, tokens, 1) \o matchAll(3, tokens, 1)
    \o matchAll(4, tokens, 1)

\* the tokens of the texts above
kMenu == << "Press", "1", "to", "pay", ".", "Press", "3", "to", "repeat", ".",
            "Press", "2", "for", "PIN", "reset", ".", "Press", "9", "to", "exit", "." >>
kWelcome == << "Press", "1", "for", "Billing", ",", "press", "2", "for", "Support", ",",
               "press", "0", "for", "an", "agent" >>
kPin == << "Please", "enter", "your", "PIN" >>

\* the texts given to extractMenuOptions: a greeting or none, then up to
\* MaxPhrases menu phrases, each "Press <d> for <L>" (or "For <L>, press <d>")
\* followed by a punctuation mark
Greetings == { << >>, << "Thank", "you", "." >> }
PhraseForms == {"Press d for L", "For L, press d"}
Keys == {"1", "2"}
Labels == {"Billing", "Support"}
Separators == {".", "!", ","}

Phrases ==
  [form : PhraseForms, dtmf : Keys, label : Labels, separator : Separators]

phraseTokens(ph) ==
  IF ph.form = "Press d for L"
    THEN << "Press", ph.dtmf, "for", ph.label, ph.separator >>
    ELSE << "For", ph.label, ",", "press", ph.dtmf, ph.separator >>

RECURSIVE textOf(_)
textOf(phrases) ==
  IF Len(phrases) = 0 THEN << >>
  ELSE phraseTokens(Head(phrases)) \o textOf(Tail(phrases))

MenusUpTo(n) == UNION {[1..m -> Phrases] : m \in 0..n}

(***************************************************************************)
(* SimulatedTelephonySession.  flow.welcome is the entry point; the        *)
(* branches come from parseTranscriptFlow for input type "text" and are    *)
(* empty otherwise.  currentNode is 0 (null) or the index of a branch; a   *)
(* branch has no children.                                                 *)
(***************************************************************************)
SimBranches(entryPoint, inputType) ==
  IF inputType = "text" THEN parseTranscriptFlow(entryPoint) ELSE << >>

SimNewSession == [isConnected |-> FALSE, currentNode |-> 0]

\* dial(): connects and plays the welcome prompt
SimDial(s, entryPoint) ==
  [session |-> [s EXCEPT !.isConnected = TRUE], ok |-> TRUE, transcript |-> entryPoint]

\* sendDtmf(digit)
SimSendDtmf(s, entryPoint, inputType, digit) ==
  LET branches == SimBranches(entryPoint, inputType)
      children == IF s.currentNode # 0 THEN << >> ELSE branches
      hits == {i \in 1..Len(children) : children[i].dtmf = digit}
  IN  IF ~s.isConnected
        THEN [session |-> s, ok |-> FALSE, transcript |-> "Call not connected"]
      ELSE IF Len(children) = 0
        THEN [session |-> s, ok |-> TRUE, transcript |-> tInvalidOption]
      ELSE IF hits # {}
        THEN LET m == CHOOSE i \in hits : \A j \in hits : i <= j
             IN  [session |-> [s EXCEPT !.currentNode = m], ok |-> TRUE,
                  transcript |-> children[m].content]
      ELSE [session |-> s, ok |-> TRUE, transcript |-> tInvalidSelection]

\* hangup()
SimHangup(s) == [isConnected |-> FALSE, currentNode |-> 0]

\* let result = await session.dial(); for (digit of path) result = await session.sendDtmf(digit)
RECURSIVE SimSendAll(_, _, _, _)
SimSendAll(r, entryPoint, inputType, digits) ==
  IF Len(digits) = 0 \/ ~r.ok THEN r
  ELSE SimSendAll(SimSendDtmf(r.session, entryPoint, inputType, Head(digits)),
                  entryPoint, inputType, Tail(digits))

SimReplay(entryPoint, inputType, path) ==
  SimSendAll(SimDial(SimNewSession, entryPoint), entryPoint, inputType, path)

(***************************************************************************)
(* The IVRs behind the phone numbers, as the telephony backend reports     *)
(* them to RealTelephonySession (data.transcript of /dial and /send-dtmf). *)
(* That of phonePin asks for a PIN first and then leads through a chain of *)
(* one-option menus, one tier per key received; that of phoneTiers is the  *)
(* chain without the PIN; that of phoneTree is a main menu with two        *)
(* submenus, one of which leads back to the main menu.                     *)
(***************************************************************************)
IvrPrompt(entryPoint, path) ==
  CASE entryPoint = phonePin ->
         IF Len(path) = 0 THEN tPin
         ELSE Tiers[IF Len(path) < Len(Tiers) THEN Len(path) ELSE Len(Tiers)]
    [] entryPoint = phoneTiers ->
         Tiers[IF Len(path) < Len(Tiers) THEN Len(path) + 1 ELSE Len(Tiers)]
    [] entryPoint = phoneTree ->
         IF path = << >> THEN tRoot
         ELSE IF path = <<"1">> THEN tBilling
         ELSE IF path = <<"1", "1">> THEN tBalance
         ELSE IF path = <<"1", "2">> THEN tPayments
         ELSE IF path = <<"2">> THEN tSupport
         ELSE IF path = <<"2", "9">> THEN tRoot
         ELSE tInvalidOption

(***************************************************************************)
(* RealTelephonySession.  callId is NoCall (null) or the id the backend    *)
(* returned; response is what fetch gives: "ok" (2xx, the JSON of          *)
(* resolveRequest, which always carries callId), "status404", "status500"  *)
(* or "rejected" (network error).  keys are the digits the backend has     *)
(* accepted on the call.  Each operator returns the session, whether the   *)
(* method returned (ok) or threw, the transcript or the error message, and *)
(* the number of requests it sent.                                         *)
(***************************************************************************)
NoCall == "null"
theCall == "CA1"

DialResponses == {"ok", "status404", "status500", "rejected"}
DtmfResponses == {"ok", "status500", "rejected"}

RealNewSession == [callId |-> NoCall]

\* dial()
RealDial(s, entryPoint, response) ==
  IF response = "ok"
    THEN [session |-> [s EXCEPT !.callId = theCall], ok |-> TRUE,
          transcript |-> IvrPrompt(entryPoint, << >>), requests |-> 1]
    ELSE [session |-> s, ok |-> FALSE, requests |-> 1,
          transcript |->
            CASE response = "status404" ->
                   "RealTelephonySession.dial error: Telephony backend returned 404 (Not Found). You might be pointing TELEPHONY_BACKEND_URL to the frontend instead of the backend server, or the /dial endpoint is missing. Check TELEPHONY_SETUP.md."
              [] response = "status500" ->
                   "RealTelephonySession.dial error: Dial failed with status 500"
              [] response = "rejected" ->
                   "RealTelephonySession.dial error: fetch failed"]

\* a sendDtmf() that sends its request whether or not there is a call (a
\* variant of RealSendDtmf)
RealSendDtmfUnguarded(s, entryPoint, keys, digit, response) ==
  IF response = "ok"
    THEN [session |-> s, ok |-> TRUE, requests |-> 1,
          transcript |-> IvrPrompt(entryPoint, Append(keys, digit))]
    ELSE [session |-> s, ok |-> FALSE, requests |-> 1,
          transcript |-> "RealTelephonySession.sendDtmf error: fetch failed"]

\* sendDtmf(digit)
RealSendDtmf(s, entryPoint, keys, digit, response) ==
  IF s.callId = NoCall
    THEN [session |-> s, ok |-> FALSE, requests |-> 0,
          transcript |-> "Call not connected"]
  ELSE IF response = "ok"
    THEN [session |-> s, ok |-> TRUE, requests |-> 1,
          transcript |-> IvrPrompt(entryPoint, Append(keys, digit))]
    ELSE [session |-> s, ok |-> FALSE, requests |-> 1,
          transcript |->
            IF response = "status500"
              THEN "RealTelephonySession.sendDtmf error: sendDtmf failed with status 500"
              ELSE "RealTelephonySession.sendDtmf error: fetch failed"]

\* hangup(): no request without a call; callId is reset whatever the request gives
RealHangupSession(s) ==
  [session |-> [s EXCEPT !.callId = NoCall], ok |-> TRUE, transcript |-> "",
   requests |-> IF s.callId = NoCall THEN 0 ELSE 1]

\* The transcript the replay of path ends with (no call failing).
ReplayTranscript(entryPoint, inputType, path) ==
  IF inputType \in {"text", "simulated"}
    THEN SimReplay(entryPoint, inputType, path).transcript
    ELSE IvrPrompt(entryPoint, path)

(***************************************************************************)
(* createTelephonySession: the kind of session the factory returns, or     *)
(* "error" when a real session is needed and no backend URL is set.  The   *)
(* helpers are given by their graphs on the entry points below.            *)
(***************************************************************************)
ePhoneSpaced == "+1 (800) 555-0199"
eSip == "sip:ivr@example.com"
eTel == "tel:+18005550199"
eWord == "hello"

EntryPoints == {phonePin, ePhoneSpaced, eSip, eTel, eWord, tMenu}

\* the input types: those of the form, "simulated", and none (v.optional)
InputTypes == {"text", "simulated", "phone", "sip", Undefined}

\* value.trim().toLowerCase().replace(/[^0-9+a-z:]/g, "")
normalizeEntryPoint(value) ==
  CASE value = phonePin -> "+18005550199"
    [] value = ePhoneSpaced -> "+18005550199"
    [] value = eSip -> "sip:ivrexamplecom"
    [] value = eTel -> "tel:+18005550199"
    [] value = eWord -> "hello"
    [] value = tMenu -> "press1topaypress3torepeatpress2forpinresetpress9toexit"
    [] value = phoneTree -> "+18005550100"
    [] value = phoneTiers -> "+18005550111"

\* /^(\+?\d{6,})$/.test(ep) || ep.startsWith("tel")
looksLikePhone(ep) ==
  ep \in {"+18005550199", "tel:+18005550199", "+18005550100", "+18005550111"}

\* ep.startsWith("sip")
looksLikeSip(ep) == ep = "sip:ivrexamplecom"

\* a factory that simulates the entry points it does not recognise (a variant
\* of createTelephonySession)
simulateUnknown(entryPoint, inputType, url) ==
  LET ep == normalizeEntryPoint(entryPoint) IN
  IF inputType = "text" \/ inputType = "simulated" THEN "SimulatedTelephonySession"
  ELSE IF looksLikePhone(ep) \/ looksLikeSip(ep)
    THEN IF url = "" THEN "error" ELSE "RealTelephonySession"
  ELSE "SimulatedTelephonySession"

createTelephonySession(entryPoint, inputType, url) ==
  LET ep == normalizeEntryPoint(entryPoint) IN
  IF inputType = "text" \/ inputType = "simulated" THEN "SimulatedTelephonySession"
  ELSE IF looksLikePhone(ep) \/ looksLikeSip(ep)
    THEN IF url = "" THEN "error" ELSE "RealTelephonySession"
  ELSE IF url = "" THEN "error"
  ELSE "RealTelephonySession"

(***************************************************************************)
(* State.                                                                  *)
(*   backendUrl   process.env.TELEPHONY_BACKEND_URL                        *)
(*   jobs         table discovery_jobs; the job id is the index            *)
(*   logs         table discovery_logs: for each call, the rows it wrote   *)
(*                (for its job), in insertion order; the rows of a job are *)
(*                those of the calls made for it                           *)
(*   nodes        table ivr_nodes: node id -> document.  The id the        *)
(*                database hands out to the k-th node a call i inserts is  *)
(*                <<i, k>> (ids are unique and never reused)               *)
(*   platforms    projects.platform, per project                           *)
(*   inv          the calls of the actions runDiscovery and                *)
(*                continueDiscovery made so far, each with the local       *)
(*                variables of its handler                                 *)
(* In a call, session is the state of the session it created last: "none" *)
(* (no session yet), "created" (dial failed, no callId), "connected"       *)
(* (dialled, not hung up) or "disconnected" (hung up); consoleError tells  *)
(* whether its last hangup wrote an error to the console.                  *)
(* An optional that holds a structured value is a sequence of length 0     *)
(* (undefined) or 1.                                                       *)
(***************************************************************************)
VARIABLES backendUrl, jobs, logs, nodes, platforms, inv

vars == <<backendUrl, jobs, logs, nodes, platforms, inv>>

JobIds == 1..Len(jobs)
InvIds == 1..Len(inv)
NodeIds == DOMAIN nodes

ProjectNodes(p) == {n \in NodeIds : nodes[n].projectId = p}

Init ==
  /\ backendUrl \in BackendUrls
  /\ jobs = << >>
  /\ logs = << >>
  /\ nodes = [n \in {} |-> NoNode]
  /\ platforms = [p \in Projects |-> Undefined]
  /\ inv = << >>

(***************************************************************************)
(* Mutations of discovery.ts, as the new value of the table they write.    *)
(***************************************************************************)
\* a writeLog that keeps the latest row only (a variant of writeLog)
overwriteLog(lg, i, message, type) ==
  [lg EXCEPT ![i] = <<[message |-> message, type |-> type]>>]

\* writeLog
writeLog(lg, i, message, type) ==
  [lg EXCEPT ![i] = Append(@, [message |-> message, type |-> type])]

\* a completeJob that patches the status only (a variant of completeJob)
completeJobStatusOnly(js, jobId, platform, status, artifacts) ==
  [js EXCEPT ![jobId] = [@ EXCEPT !.status = status]]

\* a completeJob that leaves the status as it is (a variant of completeJob)
completeJobKeepsStatus(js, jobId, platform, status, artifacts) ==
  [js EXCEPT ![jobId] = [@ EXCEPT !.platform = platform, !.artifacts = artifacts]]

\* completeJob: patches status, platform and artifacts (undefined removes it)
completeJob(js, jobId, platform, status, artifacts) ==
  [js EXCEPT ![jobId] = [@ EXCEPT !.status = status, !.platform = platform,
                                   !.artifacts = artifacts]]

\* a setWaiting that saves the stack without the frame on top (a variant of
\* setWaiting)
setWaitingWithoutFrame(js, jobId, waitingFor, resumeState) ==
  [js EXCEPT ![jobId] = [@ EXCEPT !.status = "waiting_for_input",
                                   !.waitingFor = waitingFor,
                                   !.resumeState = <<Front(resumeState)>>]]

\* setWaiting
setWaiting(js, jobId, waitingFor, resumeState) ==
  [js EXCEPT ![jobId] = [@ EXCEPT !.status = "waiting_for_input",
                                   !.waitingFor = waitingFor,
                                   !.resumeState = <<resumeState>>]]

\* resumeJob's patch
resumeJobPatch(js, jobId) ==
  [js EXCEPT ![jobId] = [@ EXCEPT !.status = "running", !.waitingFor = Undefined]]

\* a createJob that deletes nothing (a variant of clearedNodes)
keptNodes(p) == nodes

\* a createJob that deletes the nodes of every project (a variant of clearedNodes)
noNodes(p) == [n \in {} |-> NoNode]

\* createJob's node deletion: the nodes left after clearing project p
clearedNodes(p) ==
  [n \in NodeIds \ ProjectNodes(p) |-> nodes[n]]

\* createJob's inserted document
newJob(p, entryPoint, inputType) ==
  [projectId |-> p, entryPoint |-> entryPoint, inputType |-> inputType,
   status |-> "queued", waitingFor |-> Undefined, resumeState |-> << >>,
   platform |-> Undefined, artifacts |-> << >>]

(***************************************************************************)
(* createJob(projectId, entryPoint, inputType)                             *)
(***************************************************************************)
createJob(p, entryPoint, inputType) ==
  /\ Len(jobs) < MaxJobs
  /\ nodes' = clearedNodes(p)
  /\ jobs' = Append(jobs, newJob(p, entryPoint, inputType))
  /\ UNCHANGED <<backendUrl, logs, platforms, inv>>

(***************************************************************************)
(* resumeJob(jobId, input)                                                 *)
(***************************************************************************)
resumeJob(j, input) ==
  /\ jobs' = resumeJobPatch(jobs, j)
  /\ UNCHANGED <<backendUrl, logs, nodes, platforms, inv>>

(***************************************************************************)
(* A call of an action: its arguments and the handler's local variables.   *)
(* jobResumeState is job.resumeState as continueDiscovery read it;         *)
(* returnedBefore records the calls that had ended when this one was made  *)
(* (history, used to say which of two nodes was persisted later).          *)
(***************************************************************************)
newCall(kind, j, resumeInput, resumeStack, pc) ==
  [kind |-> kind, jobId |-> j, projectId |-> jobs[j].projectId,
   entryPoint |-> jobs[j].entryPoint, inputType |-> jobs[j].inputType,
   resumeInput |-> resumeInput, resumeStack |-> resumeStack,
   jobResumeState |-> IF kind = "continueDiscovery" THEN jobs[j].resumeState ELSE << >>,
   returnedBefore |-> {k \in InvIds : inv[k].pc \in {"returned", "threw"}},
   pc |-> pc, stack |-> << >>,
   visitedFingerprints |-> [f \in {} |-> NoNode],
   metrics |-> [nodesDiscovered |-> 0, loopsDetected |-> 0, maxDepthReached |-> 0],
   session |-> "none", consoleError |-> FALSE, inserted |-> 0]

\* the client starts the crawl of a job (handleDiscover): no resume arguments
runDiscoveryCall(j) ==
  /\ inv' = Append(inv, newCall("runDiscovery", j, << >>, << >>, "start"))
  /\ logs' = Append(logs, << >>)
  /\ UNCHANGED <<backendUrl, jobs, nodes, platforms>>

runDiscovery(j) == Len(inv) < MaxInvocations /\ runDiscoveryCall(j)

\* continueDiscovery's stack: the input appended to the path of the last frame
withInput(stack, input) ==
  IF Len(stack) > 0
    THEN [stack EXCEPT ![Len(stack)] = [@ EXCEPT !.path = Append(@, input)]]
    ELSE stack

(***************************************************************************)
(* continueDiscovery(jobId, projectId, input): throws when the job has no  *)
(* resumeState, else runs runDiscovery with resumeInput and resumeStack.   *)
(***************************************************************************)
continueDiscoveryCall(j, input) ==
  /\ IF Len(jobs[j].resumeState) = 0
       THEN inv' = Append(inv, newCall("continueDiscovery", j, <<input>>, << >>, "threw"))
       ELSE inv' = Append(inv, newCall("continueDiscovery", j, <<input>>,
                                       <<withInput(jobs[j].resumeState[1], input)>>,
                                       "start"))
  /\ logs' = Append(logs, << >>)
  /\ UNCHANGED <<backendUrl, jobs, nodes, platforms>>

continueDiscovery(j, input) == Len(inv) < MaxInvocations /\ continueDiscoveryCall(j, input)

(***************************************************************************)
(* The handler of runDiscovery, one step per action below.  c.pc is        *)
(* "start" before the try block's first statement, "loop" at the head of   *)
(* the DFS loop, "returned" after the handler has returned (through the    *)
(* pause branch, after completeJob, or after the catch block) and "threw"  *)
(* for a continueDiscovery that threw.                                     *)
(***************************************************************************)
\* a configuration check that accepts every URL (a variant of wrongService)
anyService(url) == FALSE

\* backendUrl.includes("convex.site") || backendUrl.includes("vly.site")
wrongService(url) == url = "https://app.convex.site"

\* the platform label of a finished run
platformOf(url) == IF url = "" THEN "Simulated" ELSE "Live/Discovered"

\* the initial stack: the resume stack with the resume input applied, or the root frame
initialStack(c) ==
  IF Len(c.resumeStack) > 0
    THEN LET st == c.resumeStack[1]
         IN  IF Len(c.resumeInput) > 0 /\ c.resumeInput[1] # "" /\ Len(st) > 0
               THEN Append(Front(st),
                           [Last(st) EXCEPT !.path = Append(@, c.resumeInput[1])])
               ELSE st
    ELSE << [path |-> << >>, parentId |-> NoNode, depth |-> 0] >>

\* the log lines of the stack initialisation
initialLogs(lg, i, c) ==
  IF Len(c.resumeStack) > 0
    THEN LET l1 == writeLog(lg, i, "Resuming from saved state...", "info")
         IN  IF Len(c.resumeInput) > 0 /\ c.resumeInput[1] # "" /\ Len(c.resumeStack[1]) > 0
               THEN writeLog(l1, i, "Applied manual input", "info")
               ELSE l1
    ELSE lg

\* the messages of the errors the handler can catch
errMissingUrl == "TELEPHONY_BACKEND_URL is missing. Please set it in the Convex Dashboard."
errInvalidConfiguration == "INVALID CONFIGURATION"
errNotConfigured == "TELEPHONY_BACKEND_URL is not configured for RealTelephonySession"
errDial == "RealTelephonySession.dial error"
errSendDtmf == "RealTelephonySession.sendDtmf error"
errHangup == "RealTelephonySession.hangup error"
errGenerate == "Could not find public function for 'testCases:generateInternal'"

\* a handler that logs the error, drops the frame and goes on with the next
\* one (a variant of Catch)
CatchAndGoOn(i, lg, stack, session, message) ==
  /\ logs' = writeLog(lg, i, "Critical Failure: " \o message, "error")
  /\ inv' = [inv EXCEPT ![i] = [@ EXCEPT !.stack = stack, !.session = session]]
  /\ UNCHANGED <<jobs, platforms>>

\* the catch block: log the failure with the error's message,
\* completeJob(status failed, platform "Unknown"); stack and session are the
\* handler's stack and the state of its session when the error was thrown
Catch(i, lg, stack, session, message) ==
  LET c == inv[i] IN
  /\ logs' = writeLog(lg, i, "Critical Failure: " \o message, "error")
  /\ jobs' = completeJob(jobs, c.jobId, "Unknown", "failed", << >>)
  /\ platforms' = [platforms EXCEPT ![c.projectId] = "Unknown"]
  /\ inv' = [inv EXCEPT ![i] = [@ EXCEPT !.pc = "returned", !.stack = stack,
                                          !.session = session]]

\* from the start of the handler to the head of the DFS loop
Start(i) ==
  LET c == inv[i]
      l0 == writeLog(logs, i, "Starting Graph-Based Discovery", "info")
  IN
  /\ c.pc = "start"
  /\ IF c.inputType # "simulated" /\ c.inputType # "text" /\ backendUrl = ""
       THEN Catch(i, l0, c.stack, c.session, errMissingUrl) /\ UNCHANGED <<backendUrl, nodes>>
     ELSE IF c.inputType # "simulated" /\ c.inputType # "text" /\ wrongService(backendUrl)
       THEN /\ Catch(i, writeLog(l0, i, errInvalidConfiguration, "error"), c.stack, c.session,
                     errInvalidConfiguration)
            /\ UNCHANGED <<backendUrl, nodes>>
     ELSE /\ logs' = initialLogs(l0, i, c)
          /\ inv' = [inv EXCEPT ![i] = [@ EXCEPT !.pc = "loop", !.stack = initialStack(c)]]
          /\ UNCHANGED <<backendUrl, jobs, nodes, platforms>>

\* a handler to which a frame deeper than maxDepth is an error (a variant of
\* Prune)
PruneAsFailure(i) ==
  LET c == inv[i] IN
  /\ c.pc = "loop"
  /\ Len(c.stack) > 0
  /\ Last(c.stack).depth > maxDepth
  /\ Catch(i, logs, Front(c.stack), c.session, "Max depth reached")
  /\ UNCHANGED <<backendUrl, nodes>>

\* a popped frame deeper than maxDepth is logged and dropped
Prune(i) ==
  LET c == inv[i] IN
  /\ c.pc = "loop"
  /\ Len(c.stack) > 0
  /\ Last(c.stack).depth > maxDepth
  /\ logs' = writeLog(logs, i, "Max depth reached. Pruning branch.", "debug")
  /\ inv' = [inv EXCEPT ![i] = [@ EXCEPT !.stack = Front(c.stack)]]
  /\ UNCHANGED <<backendUrl, jobs, nodes, platforms>>

\* a crawler that never recognises a fingerprint (a variant of isLoop)
neverLoop(visited, fingerprint) == FALSE

\* isLoop = visitedFingerprints.has(fingerprint)
isLoop(visited, fingerprint) == fingerprint \in DOMAIN visited

\* a crawler that records no fingerprint (a variant of visit)
forget(visited, fingerprint, nodeId) == visited

\* visitedFingerprints.set(fingerprint, nodeId)
visit(visited, fingerprint, nodeId) == (fingerprint :> nodeId) @@ visited

\* the document insertNode stores for a frame (path, depth and invocation
\* record the frame it was made for and the call that made it)
nodeFor(c, i, frame, transcript) ==
  LET fp == fingerprintPrompt(transcript)
      loop == isLoop(c.visitedFingerprints, fp)
  IN  [projectId |-> c.projectId,
       parentId |-> frame.parentId,
       type |-> IF frame.depth = 0 THEN "menu" ELSE "prompt",
       label |-> IF frame.depth = 0 THEN "Main Menu"
                 ELSE IF Len(frame.path) > 0 THEN "Option " \o Last(frame.path)
                 ELSE "Option undefined",
       content |-> transcript,
       metadata |-> [path |-> joinPath(frame.path),
                     dtmf |-> IF Len(frame.path) > 0 THEN Last(frame.path) ELSE Undefined],
       fingerprint |-> fp,
       isLoop |-> loop,
       linkedNodeId |-> IF loop THEN c.visitedFingerprints[fp] ELSE NoNode,
       path |-> frame.path, depth |-> frame.depth, invocation |-> i]

\* frames pushed in the order of the options, the last option on top (a variant
\* of childFrames)
childFramesLastOnTop(frame, nodeId, options) ==
  [k \in 1..Len(options) |->
     [path |-> Append(frame.path, options[k].dtmf),
      parentId |-> nodeId, depth |-> frame.depth + 1]]

\* the frames pushed for the options of a node, the first option on top
childFrames(frame, nodeId, options) ==
  [k \in 1..Len(options) |->
     [path |-> Append(frame.path, options[Len(options) + 1 - k].dtmf),
      parentId |-> nodeId, depth |-> frame.depth + 1]]

\* the results of the request hangup() sends: answered (2xx or an error status,
\* fetch resolves on both) or a network error (fetch rejects)
HangupResults == {"ok", "failed"}

\* a hangup() that lets the network error out (a variant of RealHangup)
RealHangupThrows(result) ==
  [threw |-> result = "failed", consoleError |-> FALSE]

\* RealTelephonySession.hangup(): the network error is caught and written to
\* the console; callId is reset in either case
RealHangup(result) ==
  [threw |-> FALSE, consoleError |-> result = "failed"]

\* session.hangup() on a session of the given kind
hangup(kind, result) ==
  IF kind = "RealTelephonySession" THEN RealHangup(result)
  ELSE [threw |-> FALSE, consoleError |-> FALSE]

\* one iteration of the DFS loop on a frame within maxDepth whose replay
\* succeeds; h is the result of the request of the hangup
ProcessFrame(i, h) ==
  LET c == inv[i]
      frame == Last(c.stack)
      rest == Front(c.stack)
      kind == createTelephonySession(c.entryPoint, c.inputType, backendUrl)
      transcript == ReplayTranscript(c.entryPoint, c.inputType, frame.path)
      nodeId == <<i, c.inserted + 1>>
      node == nodeFor(c, i, frame, transcript)
      options == extractMenuOptions(transcript)
      hu == hangup(kind, h)
      m1 == [c.metrics EXCEPT !.maxDepthReached = IF frame.depth > @ THEN frame.depth ELSE @,
                              !.nodesDiscovered = @ + 1]
      l1 == writeLog(logs, i, "DEBUG: TELEPHONY_BACKEND_URL", "debug")
      l2 == writeLog(l1, i, "Created session", "debug")
      l3 == writeLog(l2, i, "Reached node", "info")
      \* the log line of the branch taken, written before its hangup
      l4 == IF node.isLoop THEN writeLog(l3, i, "Loop detected. Stopping branch.", "info")
            ELSE IF Len(options) > 0 THEN writeLog(l3, i, "Found options", "info")
            ELSE IF requiresInput(transcript)
              THEN writeLog(l3, i, "Node requires input (PIN/ID). Pausing.", "warning")
            ELSE writeLog(l3, i, "No further options found. Leaf node.", "info")
      \* the handler's variables after the iteration
      c1 == [c EXCEPT !.session = "disconnected", !.consoleError = hu.consoleError,
                      !.inserted = @ + 1]
  IN
  /\ c.pc = "loop"
  /\ Len(c.stack) > 0
  /\ frame.depth <= maxDepth
  /\ kind # "error"
  /\ h = "ok" \/ kind = "RealTelephonySession"
  /\ c.inserted < MaxNodes
  /\ nodes' = (nodeId :> node) @@ nodes
  /\ IF hu.threw
       THEN Catch(i, l4, rest, "connected", errHangup)
     ELSE IF node.isLoop
       THEN /\ logs' = l4
            /\ inv' = [inv EXCEPT ![i] =
                 [c1 EXCEPT !.stack = rest,
                            !.metrics = [m1 EXCEPT !.loopsDetected = @ + 1]]]
            /\ UNCHANGED <<jobs, platforms>>
     ELSE IF Len(options) > 0
       THEN /\ logs' = l4
            /\ inv' = [inv EXCEPT ![i] =
                 [c1 EXCEPT !.stack = rest \o childFrames(frame, nodeId, options),
                            !.metrics = m1,
                            !.visitedFingerprints = visit(@, node.fingerprint, nodeId)]]
            /\ UNCHANGED <<jobs, platforms>>
     ELSE IF requiresInput(transcript)
       THEN /\ logs' = l4
            /\ jobs' = setWaiting(jobs, c.jobId, "PIN/ID", Append(rest, frame))
            /\ inv' = [inv EXCEPT ![i] =
                 [c1 EXCEPT !.stack = Append(rest, frame), !.pc = "returned",
                            !.metrics = m1,
                            !.visitedFingerprints = visit(@, node.fingerprint, nodeId)]]
            /\ UNCHANGED platforms
     ELSE /\ logs' = l4
          /\ inv' = [inv EXCEPT ![i] =
               [c1 EXCEPT !.stack = rest, !.metrics = m1,
                          !.visitedFingerprints = visit(@, node.fingerprint, nodeId)]]
          /\ UNCHANGED <<jobs, platforms>>
  /\ UNCHANGED backendUrl

\* one iteration of the DFS loop in which the factory, dial() (k = 0) or the
\* k-th sendDtmf of the replay throws: the catch block runs
FrameFails(i, k) ==
  LET c == inv[i]
      frame == Last(c.stack)
      kind == createTelephonySession(c.entryPoint, c.inputType, backendUrl)
      l1 == writeLog(logs, i, "DEBUG: TELEPHONY_BACKEND_URL", "debug")
      l2 == writeLog(l1, i, "Created session", "debug")
  IN
  /\ c.pc = "loop"
  /\ Len(c.stack) > 0
  /\ frame.depth <= maxDepth
  /\ k \in 0..Len(frame.path)
  /\ kind # "SimulatedTelephonySession"
  /\ IF kind = "error"
       THEN Catch(i, l1, Front(c.stack), c.session, errNotConfigured)
       ELSE Catch(i, l2, Front(c.stack), IF k = 0 THEN "created" ELSE "connected",
                  IF k = 0 THEN errDial ELSE errSendDtmf)
  /\ UNCHANGED <<backendUrl, nodes>>

\* the report of the artifacts
reportOf(c) ==
  [jobId |-> c.jobId, entryPoint |-> c.entryPoint, platform |-> platformOf(backendUrl),
   nodesDiscovered |-> c.metrics.nodesDiscovered,
   loopsDetected |-> c.metrics.loopsDetected,
   maxDepthReached |-> c.metrics.maxDepthReached,
   totalNodes |-> Cardinality(ProjectNodes(c.projectId))]

\* the stack is empty: artifacts, then completeJob(status completed)
Complete(i) ==
  LET c == inv[i]
      l1 == writeLog(logs, i, "Generating artifacts...", "info")
      l2 == writeLog(l1, i, "Graph traversal complete.", "info")
      artifacts == [graph |-> ProjectNodes(c.projectId), report |-> reportOf(c)]
  IN
  /\ c.pc = "loop"
  /\ Len(c.stack) = 0
  /\ logs' = l2
  /\ jobs' = completeJob(jobs, c.jobId, platformOf(backendUrl), "completed", <<artifacts>>)
  /\ platforms' = [platforms EXCEPT ![c.projectId] = platformOf(backendUrl)]
  /\ inv' = [inv EXCEPT ![i] = [@ EXCEPT !.pc = "returned"]]
  /\ UNCHANGED <<backendUrl, nodes>>

\* the stack is empty and the artifact step throws (testCases.generateInternal,
\* the mutation it runs, is not part of testCases.ts): the catch block runs
CompleteFails(i) ==
  LET c == inv[i]
      l1 == writeLog(logs, i, "Generating artifacts...", "info")
  IN
  /\ c.pc = "loop"
  /\ Len(c.stack) = 0
  /\ Catch(i, l1, c.stack, c.session, errGenerate)
  /\ UNCHANGED <<backendUrl, nodes>>

(***************************************************************************)
(* The caller.  Mutations and actions are issued at any time; an action    *)
(* runs asynchronously, so calls of runDiscovery and continueDiscovery     *)
(* overlap with each other and with the mutations.                         *)
(***************************************************************************)
Next ==
  \/ \E p \in Projects, a \in JobInputs : createJob(p, a[1], a[2])
  \/ \E j \in JobIds : runDiscovery(j)
  \/ \E j \in JobIds, x \in Inputs : resumeJob(j, x)
  \/ \E j \in JobIds, x \in Inputs : continueDiscovery(j, x)
  \/ \E i \in InvIds : Start(i)
  \/ \E i \in InvIds : Prune(i)
  \/ \E i \in InvIds, h \in HangupResults : ProcessFrame(i, h)
  \/ \E i \in InvIds, k \in 0..(maxDepth + 2 * MaxInvocations) : FrameFails(i, k)
  \/ \E i \in InvIds : Complete(i)
  \/ \E i \in InvIds : CompleteFails(i)

Spec == Init /\ [][Next]_vars

(***************************************************************************)
(* The factory on its own: inv holds the calls of createTelephonySession   *)
(* made so far, each with its arguments and, in session, what it returned. *)
(***************************************************************************)
Factory(entryPoint, inputType) ==
  /\ Len(inv) < MaxFactoryCalls
  /\ inv' = Append(inv, [entryPoint |-> entryPoint, inputType |-> inputType,
                         session |-> createTelephonySession(entryPoint, inputType,
                                                            backendUrl)])
  /\ UNCHANGED <<backendUrl, jobs, logs, nodes, platforms>>

FactoryNext == \E e \in EntryPoints, t \in InputTypes : Factory(e, t)

FactorySpec == Init /\ [][FactoryNext]_vars

(***************************************************************************)
(* The resume button pressed more than once: one job on a pasted           *)
(* transcript, its run, and calls of resumeJob and continueDiscovery made  *)
(* at any time, so that resumed traversals of the job overlap.             *)
(***************************************************************************)
ResumeNext ==
  \/ Len(jobs) = 0 /\ createJob("p1", tMenu, "text")
  \/ \E j \in JobIds : Len(inv) = 0 /\ runDiscoveryCall(j)
  \/ \E j \in JobIds, x \in Inputs : resumeJob(j, x)
  \/ \E j \in JobIds, x \in Inputs :
       Len(inv) \in 1..(MaxResumeCalls - 1) /\ continueDiscoveryCall(j, x)
  \/ \E i \in InvIds : Start(i)
  \/ \E i \in InvIds, h \in HangupResults : ProcessFrame(i, h)
  \/ \E i \in InvIds : Complete(i)
  \/ \E i \in InvIds : CompleteFails(i)

ResumeSpec == Init /\ [][ResumeNext]_vars

(***************************************************************************)
(* Runs in simulated mode: jobs created with input type "simulated" and    *)
(* run once each.                                                          *)
(***************************************************************************)
ScenarioNext ==
  \/ \E p \in Projects, a \in ScenarioInputs : createJob(p, a[1], a[2])
  \/ \E j \in JobIds : runDiscovery(j)
  \/ \E i \in InvIds : Start(i)
  \/ \E i \in InvIds, h \in HangupResults : ProcessFrame(i, h)
  \/ \E i \in InvIds : Complete(i)
  \/ \E i \in InvIds : CompleteFails(i)

ScenarioSpec == Init /\ [][ScenarioNext]_vars

(***************************************************************************)
(* fingerprintPrompt on its own: inv holds the calls made so far, each     *)
(* with the characters of its text, the normalized text and the            *)
(* fingerprint returned.                                                   *)
(***************************************************************************)
Fingerprint(text) ==
  /\ Len(inv) < MaxFingerprintCalls
  /\ inv' = Append(inv, [text |-> text, normalized |-> normalizeText(text),
                         fingerprint |-> fingerprintOfChars(text)])
  /\ UNCHANGED <<backendUrl, jobs, logs, nodes, platforms>>

FingerprintNext == \E text \in TextsUpTo(MaxTextLen) \cup Prompts : Fingerprint(text)

FingerprintSpec == Init /\ [][FingerprintNext]_vars

(***************************************************************************)
(* extractMenuOptions on its own: inv holds the calls made so far, each    *)
(* with the greeting and the phrases its text was made of, the tokens of   *)
(* the text and the options returned.                                      *)
(***************************************************************************)
Extract(greeting, phrases) ==
  /\ Len(inv) < MaxExtractCalls
  /\ inv' = Append(inv, [greeting |-> greeting, phrases |-> phrases,
                         text |-> greeting \o textOf(phrases),
                         options |-> extractOptionsOfTokens(greeting \o textOf(phrases))])
  /\ UNCHANGED <<backendUrl, jobs, logs, nodes, platforms>>

ExtractNext == \E g \in Greetings, phrases \in MenusUpTo(MaxPhrases) : Extract(g, phrases)

ExtractSpec == Init /\ [][ExtractNext]_vars

(***************************************************************************)
(* Fresh traversals of IVRs that ask for no input: jobs on the phone       *)
(* numbers of the tree and of the chain, each run with runDiscovery, the   *)
(* requests of hangup() all answered.                                      *)
(* FairCrawlSpec states what the runtime guarantees: a handler that has    *)
(* been called goes on until it returns.                                   *)
(***************************************************************************)
CrawlNext ==
  \/ \E p \in Projects, a \in CrawlInputs : createJob(p, a[1], a[2])
  \/ \E j \in JobIds : runDiscovery(j)
  \/ \E i \in InvIds : Start(i)
  \/ \E i \in InvIds : Prune(i)
  \/ \E i \in InvIds : ProcessFrame(i, "ok")
  \/ \E i \in InvIds, k \in 0..maxDepth : FrameFails(i, k)
  \/ \E i \in InvIds : Complete(i)
  \/ \E i \in InvIds : CompleteFails(i)

CrawlSpec == Init /\ [][CrawlNext]_vars

\* a step of the handler of call i
HandlerStep(i) ==
  /\ i \in InvIds
  /\ \/ Start(i)
     \/ Prune(i)
     \/ ProcessFrame(i, "ok")
     \/ \E k \in 0..maxDepth : FrameFails(i, k)
     \/ Complete(i)
     \/ CompleteFails(i)

\* the jobs are created on one project before the first call is made
FairCrawlNext ==
  \/ \E a \in CrawlInputs : Len(inv) = 0 /\ createJob("p1", a[1], a[2])
  \/ \E j \in JobIds : runDiscovery(j)
  \/ \E i \in InvIds : Start(i)
  \/ \E i \in InvIds : Prune(i)
  \/ \E i \in InvIds : ProcessFrame(i, "ok")
  \/ \E i \in InvIds, k \in 0..maxDepth : FrameFails(i, k)
  \/ \E i \in InvIds : Complete(i)
  \/ \E i \in InvIds : CompleteFails(i)

FairCrawlSpec ==
  /\ Init
  /\ [][FairCrawlNext]_vars
  /\ \A i \in 1..MaxInvocations : WF_vars(HandlerStep(i))

(***************************************************************************)
(* A telephony session on its own: inv holds the one session object the    *)
(* factory returned, with the methods called on it so far (history: the    *)
(* method, its digit, whether it returned, the transcript or the error     *)
(* message), the digits the backend accepted on the call (keys) and the    *)
(* number of requests sent to the backend.                                 *)
(***************************************************************************)
SessionInputs == { <<tMenu, "text">>, <<tWelcome, "simulated">>, <<phoneTree, "phone">> }
Digits12 == {"1", "2"}

NewSession(entryPoint, inputType) ==
  LET kind == createTelephonySession(entryPoint, inputType, backendUrl) IN
  /\ Len(inv) = 0
  /\ kind # "error"
  /\ inv' = << [kind |-> kind, entryPoint |-> entryPoint, inputType |-> inputType,
                sim |-> SimNewSession, real |-> RealNewSession,
                keys |-> << >>, requests |-> 0, history |-> << >>] >>
  /\ UNCHANGED <<backendUrl, jobs, logs, nodes, platforms>>

\* the session after a method call with result r
called(o, method, digit, r, session, keys, requests) ==
  IF o.kind = "RealTelephonySession"
    THEN [o EXCEPT !.real = session, !.keys = keys, !.requests = @ + requests,
                   !.history = Append(@, [method |-> method, digit |-> digit,
                                           ok |-> r.ok, transcript |-> r.transcript])]
    ELSE [o EXCEPT !.sim = session,
                   !.history = Append(@, [method |-> method, digit |-> digit,
                                           ok |-> r.ok, transcript |-> r.transcript])]

SessionDial(response) ==
  /\ Len(inv) = 1
  /\ Len(inv[1].history) < MaxSessionOps
  /\ LET o == inv[1] IN
     IF o.kind = "RealTelephonySession"
       THEN LET r == RealDial(o.real, o.entryPoint, response)
            IN  inv' = << called(o, "dial", "", r, r.session,
                                 IF r.ok THEN << >> ELSE o.keys, r.requests) >>
       ELSE /\ response = "ok"
            /\ LET r == SimDial(o.sim, o.entryPoint)
               IN  inv' = << called(o, "dial", "", r, r.session, o.keys, 0) >>
  /\ UNCHANGED <<backendUrl, jobs, logs, nodes, platforms>>

SessionSendDtmf(digit, response) ==
  /\ Len(inv) = 1
  /\ Len(inv[1].history) < MaxSessionOps
  /\ LET o == inv[1] IN
     IF o.kind = "RealTelephonySession"
       THEN LET r == RealSendDtmf(o.real, o.entryPoint, o.keys, digit, response)
            IN  /\ r.requests = 0 => response = "ok"
                /\ inv' = << called(o, "sendDtmf", digit, r, r.session,
                                    IF r.ok THEN Append(o.keys, digit) ELSE o.keys,
                                    r.requests) >>
       ELSE /\ response = "ok"
            /\ LET r == SimSendDtmf(o.sim, o.entryPoint, o.inputType, digit)
               IN  inv' = << called(o, "sendDtmf", digit, r, r.session, o.keys, 0) >>
  /\ UNCHANGED <<backendUrl, jobs, logs, nodes, platforms>>

SessionHangup(result) ==
  /\ Len(inv) = 1
  /\ Len(inv[1].history) < MaxSessionOps
  /\ LET o == inv[1]
         hu == hangup(o.kind, result)
     IN
     IF o.kind = "RealTelephonySession"
       THEN LET r == RealHangupSession(o.real)
            IN  /\ r.requests = 0 => result = "ok"
                /\ inv' = << called(o, "hangup", "", [r EXCEPT !.ok = ~hu.threw],
                                    r.session, << >>, r.requests) >>
       ELSE /\ result = "ok"
            /\ inv' = << called(o, "hangup", "", [ok |-> ~hu.threw, transcript |-> ""],
                                SimHangup(o.sim), o.keys, 0) >>
  /\ UNCHANGED <<backendUrl, jobs, logs, nodes, platforms>>

SessionNext ==
  \/ \E a \in SessionInputs : NewSession(a[1], a[2])
  \/ \E response \in DialResponses : SessionDial(response)
  \/ \E digit \in Digits12, response \in DtmfResponses : SessionSendDtmf(digit, response)
  \/ \E result \in HangupResults : SessionHangup(result)

SessionSpec == Init /\ [][SessionNext]_vars

(***************************************************************************)
(* The telephony backend (server.ts) with one call.  inv holds the one     *)
(* server process:                                                         *)
(*   sessions   the map sessions, callSid -> CallSession; res is 0 (null)  *)
(*              or the index of the pending request, a timer field is 0    *)
(*              (null) or the handle of a timer, transcriptParts is the    *)
(*              number of parts pushed                                     *)
(*   requests   the HTTP requests received so far: pc is "twilio" while    *)
(*              the handler awaits the Twilio client, "gathering" while    *)
(*              the session holds its response object, "done" after the    *)
(*              handler has answered; responses counts the responses sent  *)
(*              on it, accepted tells that startGathering stored it        *)
(*   pending    the handles of the timers set and neither fired nor        *)
(*              cleared; every timer's callback is resolveRequest(callSid) *)
(*   heard      the number of Transcript events with text received         *)
(* The handlers run on one thread: a step is the code between two awaits.  *)
(***************************************************************************)
newServer ==
  [sessions |-> [c \in {} |-> 0], requests |-> << >>, pending |-> {},
   nextTimer |-> 1, heard |-> 0]

newCallSession ==
  [res |-> 0, transcriptParts |-> 0, silenceTimer |-> 0, maxWaitTimer |-> 0,
   isGathering |-> FALSE]

\* res.status(status).json(...) on request r
respond(o, r, status) ==
  [o EXCEPT !.requests[r] = [@ EXCEPT !.responses = @ + 1, !.status = status,
                                      !.pc = "done"]]

resolveRequest(o, callSid) ==
  IF callSid \notin DOMAIN o.sessions \/ o.sessions[callSid].res = 0 THEN o
  ELSE LET session == o.sessions[callSid]
           o1 == respond(o, session.res, 200)
       IN  [o1 EXCEPT !.sessions[callSid] =
                        [@ EXCEPT !.res = 0, !.transcriptParts = 0, !.isGathering = FALSE],
                      !.pending = @ \ {session.silenceTimer, session.maxWaitTimer}]

startGathering(o, callSid, r) ==
  IF callSid \notin DOMAIN o.sessions THEN respond(o, r, 404)
  ELSE LET o1 == IF o.sessions[callSid].res # 0 THEN resolveRequest(o, callSid) ELSE o
       IN  [o1 EXCEPT !.sessions[callSid] =
                        [@ EXCEPT !.res = r, !.isGathering = TRUE, !.transcriptParts = 0,
                                  !.maxWaitTimer = o1.nextTimer],
                      !.requests[r] = [@ EXCEPT !.pc = "gathering", !.accepted = TRUE],
                      !.pending = @ \cup {o1.nextTimer},
                      !.nextTimer = @ + 1]

newRequest(endpoint) ==
  [endpoint |-> endpoint, pc |-> "twilio", responses |-> 0, status |-> 0,
   accepted |-> FALSE]

ServerStep(o) ==
  /\ inv' = <<o>>
  /\ UNCHANGED <<backendUrl, jobs, logs, nodes, platforms>>

\* server.listen
Listen == Len(inv) = 0 /\ ServerStep(newServer)

\* POST /dial arrives: the handler awaits twilioClient.calls.create
PostDial ==
  /\ Len(inv) = 1
  /\ Len(inv[1].requests) < MaxServerRequests
  /\ \A r \in DOMAIN inv[1].requests : inv[1].requests[r].endpoint # "dial"
  /\ ServerStep([inv[1] EXCEPT !.requests = Append(@, newRequest("dial"))])

\* the call was created: the session is set and the gathering starts
DialCreated(r) ==
  /\ Len(inv) = 1 /\ r \in DOMAIN inv[1].requests
  /\ inv[1].requests[r].endpoint = "dial" /\ inv[1].requests[r].pc = "twilio"
  /\ ServerStep(startGathering(
       [inv[1] EXCEPT !.sessions = (theCall :> newCallSession) @@ @], theCall, r))

\* calls.create threw: 500
DialFails(r) ==
  /\ Len(inv) = 1 /\ r \in DOMAIN inv[1].requests
  /\ inv[1].requests[r].endpoint = "dial" /\ inv[1].requests[r].pc = "twilio"
  /\ ServerStep(respond(inv[1], r, 500))

\* POST /send-dtmf for the call arrives: 404 without a session, else the
\* handler awaits calls(callId).update
PostSendDtmf ==
  /\ Len(inv) = 1
  /\ Len(inv[1].requests) < MaxServerRequests
  /\ LET o == [inv[1] EXCEPT !.requests = Append(@, newRequest("send-dtmf"))]
         r == Len(o.requests)
     IN  ServerStep(IF theCall \in DOMAIN o.sessions THEN o ELSE respond(o, r, 404))

\* the digits were sent: the gathering starts
DtmfSent(r) ==
  /\ Len(inv) = 1 /\ r \in DOMAIN inv[1].requests
  /\ inv[1].requests[r].endpoint = "send-dtmf" /\ inv[1].requests[r].pc = "twilio"
  /\ ServerStep(startGathering(inv[1], theCall, r))

\* calls(callId).update threw: 500
DtmfFails(r) ==
  /\ Len(inv) = 1 /\ r \in DOMAIN inv[1].requests
  /\ inv[1].requests[r].endpoint = "send-dtmf" /\ inv[1].requests[r].pc = "twilio"
  /\ ServerStep(respond(inv[1], r, 500))

\* POST /hangup for the call arrives: the handler awaits calls(callId).update
PostHangup ==
  /\ Len(inv) = 1
  /\ Len(inv[1].requests) < MaxServerRequests
  /\ ServerStep([inv[1] EXCEPT !.requests = Append(@, newRequest("hangup"))])

\* the call was ended: the session is deleted; or update threw; "hungup" in both cases
HangupDone(r, ended) ==
  /\ Len(inv) = 1 /\ r \in DOMAIN inv[1].requests
  /\ inv[1].requests[r].endpoint = "hangup" /\ inv[1].requests[r].pc = "twilio"
  /\ LET o == inv[1]
         o1 == IF ended
                 THEN [o EXCEPT !.sessions = [c \in DOMAIN @ \ {theCall} |-> @[c]]]
                 ELSE o
     IN  ServerStep(respond(o1, r, 200))

\* a Transcript event with text
Transcript ==
  /\ Len(inv) = 1
  /\ inv[1].heard < MaxTranscripts
  /\ LET o == [inv[1] EXCEPT !.heard = @ + 1] IN
     IF theCall \in DOMAIN o.sessions /\ o.sessions[theCall].isGathering
       THEN LET sess == o.sessions[theCall]
            IN  ServerStep(
                  [o EXCEPT !.sessions[theCall] =
                              [@ EXCEPT !.transcriptParts = @ + 1, !.maxWaitTimer = 0,
                                        !.silenceTimer = o.nextTimer],
                            !.pending = (@ \ {sess.maxWaitTimer, sess.silenceTimer})
                                          \cup {o.nextTimer},
                            !.nextTimer = @ + 1])
       ELSE ServerStep(o)

\* a timer (max wait or silence) fires
TimerFires(t) ==
  /\ Len(inv) = 1
  /\ t \in inv[1].pending
  /\ ServerStep(resolveRequest([inv[1] EXCEPT !.pending = @ \ {t}], theCall))

ServerRequests == 1..MaxServerRequests
TimerIds == 1..(MaxServerRequests + MaxTranscripts)

ServerNext ==
  \/ Listen
  \/ PostDial
  \/ \E r \in ServerRequests : DialCreated(r)
  \/ \E r \in ServerRequests : DialFails(r)
  \/ PostSendDtmf
  \/ \E r \in ServerRequests : DtmfSent(r)
  \/ \E r \in ServerRequests : DtmfFails(r)
  \/ PostHangup
  \/ \E r \in ServerRequests, ended \in BOOLEAN : HangupDone(r, ended)
  \/ Transcript
  \/ \E t \in TimerIds : TimerFires(t)

\* timers fire and the Twilio client settles its promises
ServerSpec ==
  /\ Init /\ [][ServerNext]_vars
  /\ WF_vars(\E t \in TimerIds : TimerFires(t))
  /\ \A r \in ServerRequests :
       /\ WF_vars(DialCreated(r) \/ DialFails(r))
       /\ WF_vars(DtmfSent(r) \/ DtmfFails(r))
       /\ WF_vars(\E ended \in BOOLEAN : HangupDone(r, ended))

(***************************************************************************)
(* Vocabulary of the properties.                                           *)
(***************************************************************************)
Ended(c) == c.pc \in {"returned", "threw"}
SettledStatus == {"completed", "failed", "waiting_for_input"}
Children(n) == {m \in NodeIds : nodes[m].parentId = n}
\* node n2 was persisted after node n1, as far as the state records it
PersistedLater(n1, n2) ==
  \/ n1[1] = n2[1] /\ n1[2] < n2[2]
  \/ n1[1] \in inv[n2[1]].returnedBefore
\* the frames pending anywhere: on the stack of a call or in a saved resumeState
PendingFrames ==
  UNION {{inv[i].stack[k] : k \in 1..Len(inv[i].stack)} : i \in InvIds}
  \cup UNION {IF Len(jobs[j].resumeState) = 0 THEN {}
              ELSE {jobs[j].resumeState[1][k] : k \in 1..Len(jobs[j].resumeState[1])}
              : j \in JobIds}

(***************************************************************************)
(* C1.  Every change of a job's status is one of queued -> running,        *)
(* running -> completed | failed | waiting_for_input, and                  *)
(* waiting_for_input -> running.                                           *)
(***************************************************************************)
AllowedTransitions ==
  { <<"queued", "running">>, <<"running", "completed">>, <<"running", "failed">>,
    <<"running", "waiting_for_input">>, <<"waiting_for_input", "running">> }

C1_StatusTransitions ==
  [][\A j \in JobIds :
       jobs'[j].status # jobs[j].status
         => <<jobs[j].status, jobs'[j].status>> \in AllowedTransitions]_vars

(***************************************************************************)
(* C2.  The first node a resumed traversal persists has the path of the    *)
(* frame on top of the saved stack with the human input appended once,     *)
(* and its metadata path is that path joined.                              *)
(***************************************************************************)
C2_ResumeAppendsInputOnce ==
  \A n \in NodeIds :
    LET c == inv[n[1]] IN
      (c.kind = "continueDiscovery" /\ n[2] = 1)
        => LET p == Append(Last(c.jobResumeState[1]).path, c.resumeInput[1])
           IN  nodes[n].path = p /\ nodes[n].metadata.path = joinPath(p)

(***************************************************************************)
(* C3.  When a call of runDiscovery or continueDiscovery ends, normally or *)
(* by throwing, the status of its job is completed, failed or              *)
(* waiting_for_input.                                                      *)
(***************************************************************************)
C3_EndedCallSettlesJob ==
  [][\A i \in 1..Len(inv') :
       (Ended(inv'[i]) /\ (i > Len(inv) \/ ~Ended(inv[i])))
         => jobs'[inv'[i].jobId].status \in SettledStatus]_vars

(***************************************************************************)
(* C4.  resumeJob and continueDiscovery on a job that is not               *)
(* waiting_for_input are rejected: resumeJob leaves the job as it is and   *)
(* continueDiscovery starts no traversal.                                  *)
(***************************************************************************)
C4_ResumeOnlyWhenWaiting ==
  [][\A j \in JobIds :
       jobs[j].status # "waiting_for_input"
         => /\ \A x \in Inputs : resumeJob(j, x) => jobs'[j] = jobs[j]
            /\ \A x \in Inputs : continueDiscovery(j, x) => inv'[Len(inv')].pc = "threw"]_vars

(***************************************************************************)
(* C5.  A job has a resumeState exactly when its status is                 *)
(* waiting_for_input.                                                      *)
(***************************************************************************)
C5_ResumeStateIffWaiting ==
  \A j \in JobIds :
    (Len(jobs[j].resumeState) > 0) <=> (jobs[j].status = "waiting_for_input")

(***************************************************************************)
(* C6.  Within one call of runDiscovery, of two nodes persisted for        *)
(* distinct paths with the same fingerprint the second is a loop node      *)
(* linked to the first node of that fingerprint, it has no children and no *)
(* pending frame names it as parent.                                       *)
(***************************************************************************)
C6_SecondVisitIsLoop ==
  \A n1, n2 \in NodeIds :
    ( /\ n1[1] = n2[1] /\ n1[2] < n2[2]
      /\ nodes[n1].fingerprint = nodes[n2].fingerprint
      /\ nodes[n1].path # nodes[n2].path )
    => /\ nodes[n2].isLoop
       /\ nodes[n2].linkedNodeId =
            (IF nodes[n1].isLoop THEN nodes[n1].linkedNodeId ELSE n1)
       /\ Children(n2) = {}
       /\ \A f \in PendingFrames : f.parentId # n2

C6_Witness ==
  \E n1, n2 \in NodeIds :
    /\ n1[1] = n2[1] /\ n1[2] < n2[2]
    /\ nodes[n1].fingerprint = nodes[n2].fingerprint
    /\ nodes[n1].path # nodes[n2].path
    /\ ~nodes[n1].isLoop /\ nodes[n2].isLoop /\ nodes[n2].linkedNodeId = n1
    /\ Ended(inv[n1[1]])

(***************************************************************************)
(* C7.  No persisted node has a path of more than maxDepth DTMF entries.   *)
(***************************************************************************)
C7_PathWithinMaxDepth ==
  \A n \in NodeIds : Len(nodes[n].path) <= maxDepth

(***************************************************************************)
(* C8.  createJob(projectId) leaves the project with no node, creates the  *)
(* job queued and leaves the nodes of every other project as they were.    *)
(***************************************************************************)
NodesIn(ns, p) == {n \in DOMAIN ns : ns[n].projectId = p}

C8_CreateJobClearsProject ==
  [][Len(jobs') = Len(jobs) + 1
       => LET j == Len(jobs')
              p == jobs'[j].projectId
          IN  /\ NodesIn(nodes', p) = {}
              /\ jobs'[j].status = "queued"
              /\ \A q \in Projects \ {p} :
                   /\ NodesIn(nodes', q) = NodesIn(nodes, q)
                   /\ \A n \in NodesIn(nodes, q) : nodes'[n] = nodes[n]]_vars

\* a second job was created on a project in which the first job's crawl had
\* persisted nodes: none of them is left
C8_Witness ==
  /\ Len(jobs) = 2
  /\ jobs[1].projectId = jobs[2].projectId
  /\ jobs[2].status = "queued"
  /\ \E i \in InvIds : inv[i].jobId = 1 /\ inv[i].inserted > 0
  /\ \A i \in InvIds : inv[i].jobId = 1
  /\ NodesIn(nodes, jobs[2].projectId) = {}

(***************************************************************************)
(* C9.  The nodes of a project form a rooted tree: at most one node has no *)
(* parentId and every other parentId is a node of the same project.        *)
(***************************************************************************)
C9_RootedTree ==
  \A p \in Projects :
    /\ Cardinality({n \in ProjectNodes(p) : nodes[n].parentId = NoNode}) <= 1
    /\ \A n \in ProjectNodes(p) :
         nodes[n].parentId # NoNode => nodes[n].parentId \in ProjectNodes(p)

(***************************************************************************)
(* C10.  Of two nodes of a project with equal fingerprint, the one         *)
(* persisted later is a loop node and has no children, whichever calls     *)
(* persisted them.                                                         *)
(***************************************************************************)
C10_Original ==
  \A n1, n2 \in NodeIds :
    ( /\ n1 # n2
      /\ nodes[n1].projectId = nodes[n2].projectId
      /\ nodes[n1].fingerprint = nodes[n2].fingerprint )
    => /\ PersistedLater(n1, n2) => (nodes[n2].isLoop /\ Children(n2) = {})
       /\ nodes[n1].isLoop \/ nodes[n2].isLoop

\* C10, restricted to one call: of two nodes with equal fingerprint that the
\* same call of runDiscovery persisted, the later one is a loop node and has
\* no children.
C10_SameCallDuplicateIsLoop ==
  \A n1, n2 \in NodeIds :
    ( /\ n1[1] = n2[1] /\ n1[2] < n2[2]
      /\ nodes[n1].fingerprint = nodes[n2].fingerprint )
    => (nodes[n2].isLoop /\ Children(n2) = {})

\* a call has persisted two nodes with the same fingerprint, the later one as a
\* loop node, in a project where some node was expanded into children
C10_Witness ==
  \E n1, n2 \in NodeIds :
    /\ n1[1] = n2[1] /\ n1[2] < n2[2]
    /\ nodes[n1].fingerprint = nodes[n2].fingerprint
    /\ nodes[n2].isLoop
    /\ \E m \in NodeIds : Children(m) # {}

(***************************************************************************)
(* C11.  A call of runDiscovery for an input type other than "text" and    *)
(* "simulated", made while the backend URL is absent or is the Convex      *)
(* site, creates no session, pops no frame and persists no node, and the   *)
(* step that leaves the start of its handler ends it with the job failed.  *)
(***************************************************************************)
Misconfigured(c) ==
  /\ c.inputType \notin {"text", "simulated"}
  /\ backendUrl \in {"", "https://app.convex.site"}

C12_FailedReplayEndsCall ==
  [][\A i \in InvIds :
       /\ (\E k \in 0..(maxDepth + 2 * MaxInvocations) : FrameFails(i, k))
            => /\ inv'[i].pc = "returned"
               /\ jobs'[inv[i].jobId].status = "failed"
               /\ nodes' = nodes
       /\ Ended(inv[i])
            => /\ inv'[i] = inv[i]
               /\ logs'[i] = logs[i]
               /\ {n \in DOMAIN nodes' : n[1] = i} \subseteq DOMAIN nodes]_vars

\* a call has ended on a failed sendDtmf after it had persisted nodes
C12_Witness ==
  \E i \in InvIds :
    /\ inv[i].pc = "returned" /\ inv[i].session = "connected"
    /\ inv[i].inserted > 0
    /\ Last(logs[i]).message = "Critical Failure: " \o errSendDtmf
    /\ jobs[inv[i].jobId].status = "failed"

(***************************************************************************)
(* C13.  The step in which a call fails (the configuration check, a dial,  *)
(* a sendDtmf or the artifact step throws) leaves every node as it was,    *)
(* appends to the call's log one error line that carries the message of    *)
(* the error, and leaves the job failed with platform "Unknown" (the       *)
(* project's platform too).                                                *)
(***************************************************************************)
ErrorMessages ==
  {errMissingUrl, errInvalidConfiguration, errNotConfigured, errDial, errSendDtmf,
   errHangup, errGenerate}

Fails(i) ==
  \/ \E k \in 0..(maxDepth + 2 * MaxInvocations) : FrameFails(i, k)
  \/ CompleteFails(i)
  \/ Start(i) /\ inv'[i].pc = "returned"

C13_FailureKeepsNodes ==
  [][\A i \in InvIds :
       Fails(i)
         => /\ nodes' = nodes
            /\ Len(logs'[i]) > Len(logs[i])
            /\ SubSeq(logs'[i], 1, Len(logs[i])) = logs[i]
            /\ Last(logs'[i]).type = "error"
            /\ \E m \in ErrorMessages :
                 Last(logs'[i]).message = "Critical Failure: " \o m
            /\ jobs'[inv[i].jobId].status = "failed"
            /\ jobs'[inv[i].jobId].platform = "Unknown"
            /\ platforms'[inv[i].projectId] = "Unknown"]_vars

\* a call has failed after it had persisted two nodes or more, and they are
\* all in the table
C13_Witness ==
  \E i \in InvIds :
    /\ inv[i].pc = "returned" /\ inv[i].inserted >= 2
    /\ Cardinality({n \in NodeIds : n[1] = i}) = inv[i].inserted
    /\ Last(logs[i]).type = "error"
    /\ jobs[inv[i].jobId].status = "failed"
    /\ jobs[inv[i].jobId].platform = "Unknown"

(***************************************************************************)
(* C14.  createTelephonySession returns a simulated session when the input *)
(* type is "text" or "simulated", whatever the entry point and the backend *)
(* URL; for every other input type, none included, it returns a real       *)
(* session when the backend URL is set and throws when it is not, whatever *)
(* the entry point looks like.                                             *)
(***************************************************************************)
C14_FactorySelection ==
  \A i \in InvIds :
    inv[i].session =
      (IF inv[i].inputType \in {"text", "simulated"} THEN "SimulatedTelephonySession"
       ELSE IF backendUrl # "" THEN "RealTelephonySession"
       ELSE "error")

\* the factory was called with and without an input type, on an entry point
\* that is neither a phone number nor a SIP URI and on a phone number
C14_Witness ==
  /\ \E i \in InvIds :
       /\ inv[i].entryPoint = eWord /\ inv[i].inputType = Undefined
       /\ inv[i].session = "RealTelephonySession"
  /\ \E i \in InvIds :
       /\ inv[i].entryPoint = phonePin /\ inv[i].inputType = "simulated"
       /\ inv[i].session = "SimulatedTelephonySession"

(***************************************************************************)
(* C15.  No call of the engine ends with its session still connected:      *)
(* every session that was dialled has been hung up when the handler        *)
(* returns, whichever way it returns.                                      *)
(***************************************************************************)
C15_SessionsHungUp ==
  \A i \in InvIds : Ended(inv[i]) => inv[i].session # "connected"

(***************************************************************************)
(* C16.  A frame of a job's saved stack yields one node at most: the calls *)
(* of continueDiscovery that read the same saved stack do not persist two  *)
(* nodes for the same frame of it.                                         *)
(***************************************************************************)
\* node n was persisted for frame f of a saved stack
NodeOfFrame(n, f) ==
  /\ nodes[n].parentId = f.parentId
  /\ nodes[n].depth = f.depth
  /\ Len(nodes[n].path) >= Len(f.path)
  /\ SubSeq(nodes[n].path, 1, Len(f.path)) = f.path

C16_SavedFrameProcessedOnce ==
  \A j \in JobIds : \A i1, i2 \in InvIds :
    ( /\ i1 # i2
      /\ inv[i1].kind = "continueDiscovery" /\ inv[i2].kind = "continueDiscovery"
      /\ inv[i1].jobId = j /\ inv[i2].jobId = j
      /\ Len(inv[i1].jobResumeState) > 0
      /\ inv[i1].jobResumeState = inv[i2].jobResumeState )
    => \A k \in 1..Len(inv[i1].jobResumeState[1]) :
         ~ \E n1, n2 \in NodeIds :
             /\ n1[1] = i1 /\ n2[1] = i2
             /\ NodeOfFrame(n1, inv[i1].jobResumeState[1][k])
             /\ NodeOfFrame(n2, inv[i1].jobResumeState[1][k])

(***************************************************************************)
(* C17.  Jobs on different projects do not interact.  Every step changes   *)
(* the nodes, jobs, platform, calls and logs of one project at most; a     *)
(* loop node is linked to a node of the call that persisted it; and the    *)
(* first run of a job that is the only job of its project ends, however    *)
(* its steps were interleaved with those of the other project, with the    *)
(* nodes and the saved stack it ends with when nothing else runs.          *)
(***************************************************************************)
\* node ids and frames without the index of the call
Local(id) == IF id = NoNode THEN 0 ELSE id[2]

Shape(i) ==
  { [k |-> n[2], path |-> nodes[n].path, parent |-> Local(nodes[n].parentId),
     fingerprint |-> nodes[n].fingerprint, isLoop |-> nodes[n].isLoop,
     linked |-> Local(nodes[n].linkedNodeId)] : n \in {m \in NodeIds : m[1] = i} }

StackShape(st) ==
  [k \in 1..Len(st) |->
     [path |-> st[k].path, parent |-> Local(st[k].parentId), depth |-> st[k].depth]]

\* what a run on the pasted menu ends with when it runs alone: the root, the
\* answers to 1 and 3 (the second a loop) and the PIN reset prompt it pauses on
AloneShape(entryPoint) ==
  IF entryPoint = tMenu
    THEN { [k |-> 1, path |-> << >>, parent |-> 0, fingerprint |-> "v1:4a8b8fa2",
            isLoop |-> FALSE, linked |-> 0],
           [k |-> 2, path |-> <<"1">>, parent |-> 1, fingerprint |-> "v1:67692dc",
            isLoop |-> FALSE, linked |-> 0],
           [k |-> 3, path |-> <<"3">>, parent |-> 1, fingerprint |-> "v1:67692dc",
            isLoop |-> TRUE, linked |-> 2],
           [k |-> 4, path |-> <<"2">>, parent |-> 1, fingerprint |-> "v1:28b5bc2c",
            isLoop |-> FALSE, linked |-> 0] }
    ELSE { [k |-> 1, path |-> << >>, parent |-> 0, fingerprint |-> "v1:22b6346c",
            isLoop |-> FALSE, linked |-> 0] }

AloneStack(entryPoint) ==
  IF entryPoint = tMenu
    THEN << [path |-> <<"9">>, parent |-> 1, depth |-> 1],
            [path |-> <<"2">>, parent |-> 1, depth |-> 1] >>
    ELSE << [path |-> << >>, parent |-> 0, depth |-> 0] >>

\* call i is the run of the only job of its project, nothing else was called
\* for the job, and it has paused
SoleRunPaused(i) ==
  /\ inv[i].kind = "runDiscovery" /\ inv[i].pc = "returned"
  /\ Last(logs[i]).type = "warning"
  /\ \A j \in JobIds : jobs[j].projectId = inv[i].projectId => j = inv[i].jobId
  /\ \A k \in InvIds : inv[k].jobId = inv[i].jobId => k = i
  /\ jobs[inv[i].jobId].waitingFor # Undefined

OfProject(p) ==
  <<NodesIn(nodes, p), [n \in NodesIn(nodes, p) |-> nodes[n]],
    {<<j, jobs[j]>> : j \in {k \in JobIds : jobs[k].projectId = p}},
    platforms[p],
    {<<i, inv[i], logs[i]>> : i \in {k \in InvIds : inv[k].projectId = p}}>>

C17_ProjectsDoNotInteract ==
  [][/\ \E p \in Projects : \A q \in Projects \ {p} : OfProject(q)' = OfProject(q)
     /\ \A n \in DOMAIN nodes' :
          nodes'[n].isLoop => nodes'[n].linkedNodeId[1] = n[1]
     /\ \A i \in 1..Len(inv') :
          SoleRunPaused(i)'
            => /\ Shape(i)' = AloneShape(inv'[i].entryPoint)
               /\ StackShape(jobs'[inv'[i].jobId].resumeState[1])
                    = AloneStack(inv'[i].entryPoint)
               /\ jobs'[inv'[i].jobId].status = "waiting_for_input"]_vars

\* two runs on the same menu in different projects, the second called while
\* the first was running, have both paused
C17_Witness ==
  \E i1, i2 \in InvIds :
    /\ inv[i1].projectId # inv[i2].projectId
    /\ inv[i1].entryPoint = tMenu /\ inv[i2].entryPoint = tMenu
    /\ SoleRunPaused(i1) /\ SoleRunPaused(i2)
    /\ i1 \notin inv[i2].returnedBefore /\ i2 \notin inv[i1].returnedBefore
    /\ Shape(i1) = Shape(i2)

(***************************************************************************)
(* C18.  The log is append-only: in every step, the rows each call has     *)
(* written for its job are a prefix of the rows it has written after the   *)
(* step, and the rows of no call disappear.                                *)
(***************************************************************************)
C18_LogAppendOnly ==
  [][/\ Len(logs') >= Len(logs)
     /\ \A i \in 1..Len(logs) :
          /\ Len(logs'[i]) >= Len(logs[i])
          /\ SubSeq(logs'[i], 1, Len(logs[i])) = logs[i]]_vars

\* a job has the rows of its paused run and of a resumed one, after resumeJob
\* and after a createJob on its project
C18_Witness ==
  /\ Len(jobs) = 2 /\ jobs[1].projectId = jobs[2].projectId
  /\ Len(inv) = 2 /\ inv[1].jobId = 1 /\ inv[2].jobId = 1
  /\ inv[2].kind = "continueDiscovery" /\ inv[2].pc = "returned"
  /\ Len(logs[1]) >= 4 /\ Len(logs[2]) >= 4
  /\ jobs[1].status \in {"completed", "failed"}

(***************************************************************************)
(* C19.  An iteration whose hangup fails on the network goes on as one     *)
(* whose hangup succeeds: the node is persisted, no error line is logged,  *)
(* the job does not become failed, the call stays in its loop (or returns  *)
(* paused), and the session is disconnected.                               *)
(***************************************************************************)
C19_HangupFailureIgnored ==
  [][\A i \in InvIds :
       ProcessFrame(i, "failed")
         => /\ inv'[i].session = "disconnected"
            /\ <<i, inv[i].inserted + 1>> \in DOMAIN nodes'
            /\ Last(logs'[i]).type # "error"
            /\ jobs'[inv[i].jobId].status \in {jobs[inv[i].jobId].status, "waiting_for_input"}
            /\ \/ inv'[i].pc = "loop"
               \/ inv'[i].pc = "returned"
                    /\ jobs'[inv[i].jobId].status = "waiting_for_input"]_vars

\* the last hangup of a call failed and the call is in its loop with a frame
\* to process
C19_Witness ==
  \E i \in InvIds :
    /\ inv[i].consoleError /\ inv[i].session = "disconnected"
    /\ inv[i].pc = "loop" /\ Len(inv[i].stack) > 0
    /\ jobs[inv[i].jobId].status # "failed"

(***************************************************************************)
(* C20.  The run of a job in simulated mode on "+18005550199" (or on the   *)
(* welcome prompt "Press 1 for Billing, press 2 for Support, press 0 for   *)
(* an agent"), being the only run in its project, leaves when it has       *)
(* completed exactly four nodes: the root and three children reached by 1, *)
(* 2 and 0 in this order, none of them a loop node.                        *)
(***************************************************************************)
C20_WelcomeScenario ==
  \A i \in InvIds :
    ( /\ inv[i].kind = "runDiscovery" /\ inv[i].inputType = "simulated"
      /\ inv[i].pc = "returned"
      /\ Last(logs[i]).message = "Graph traversal complete."
      /\ \A j \in JobIds : jobs[j].projectId = inv[i].projectId => j = inv[i].jobId
      /\ \A k \in InvIds : inv[k].jobId = inv[i].jobId => k = i )
    => /\ jobs[inv[i].jobId].status = "completed"
       /\ {[k |-> r.k, path |-> r.path, parent |-> r.parent, isLoop |-> r.isLoop]
             : r \in Shape(i)}
            = { [k |-> 1, path |-> << >>, parent |-> 0, isLoop |-> FALSE],
                [k |-> 2, path |-> <<"1">>, parent |-> 1, isLoop |-> FALSE],
                [k |-> 3, path |-> <<"2">>, parent |-> 1, isLoop |-> FALSE],
                [k |-> 4, path |-> <<"0">>, parent |-> 1, isLoop |-> FALSE] }

(***************************************************************************)
(* C21.  The fingerprint is a function of the normalized text: two texts   *)
(* that are equal once lower-cased and stripped of every character other   *)
(* than a letter or a digit have the same fingerprint, and the fingerprint *)
(* of a text is "empty" exactly when nothing is left of it after that.     *)
(***************************************************************************)
\* the text lower-cased and without its non-alphanumeric characters
LettersAndDigits(text) == SelectSeq(toLowerCase(text), isAZ09)

C21_FingerprintOfNormalizedText ==
  \A i, k \in InvIds :
    /\ LettersAndDigits(inv[i].text) = LettersAndDigits(inv[k].text)
         => inv[i].fingerprint = inv[k].fingerprint
    /\ inv[i].fingerprint = "empty" <=> LettersAndDigits(inv[i].text) = << >>

\* "Press 1 for Sales." and "press 1 for sales" were fingerprinted, to the same
\* fingerprint, which is not "empty"
C21_Witness ==
  /\ Len(inv) = 2
  /\ inv[1].text = cSales /\ inv[2].text = cSalesPlain
  /\ inv[1].fingerprint = inv[2].fingerprint
  /\ inv[1].fingerprint # "empty"

(***************************************************************************)
(* C22.  The fingerprint of a text whose normalized text is not empty is   *)
(* "v1:" followed by the hexadecimal digits of |h|, where h starts at 0    *)
(* and becomes, for each character code c of the normalized text in order, *)
(* h*31 - h + c truncated to a signed 32-bit integer.                      *)
(* The hash of the claim is computed here on unsigned 32-bit numbers kept  *)
(* as two 16-bit halves <<high, low>>, h becoming k*h + c modulo 2^32.     *)
(***************************************************************************)
TimesPlus(k, u, c) ==
  LET low == k * u[2] + c
      high == k * u[1] + (low \div 65536)
  IN  << high % 65536, low % 65536 >>

RECURSIVE PolynomialHash(_, _, _)
PolynomialHash(k, u, codes) ==
  IF Len(codes) = 0 THEN u
  ELSE PolynomialHash(k, TimesPlus(k, u, Head(codes)), Tail(codes))

\* |h| of the signed number the 32 bits stand for
Magnitude(u) ==
  IF u[1] < 32768 THEN u
  ELSE << (65535 - u[1]) + (IF u[2] = 0 THEN 1 ELSE 0), (65536 - u[2]) % 65536 >>

HexOf(u) ==
  IF u[1] = 0 THEN toString16(u[2])
  ELSE toString16(u[1])
         \o (IF u[2] < 16 THEN "000" ELSE IF u[2] < 256 THEN "00"
             ELSE IF u[2] < 4096 THEN "0" ELSE "")
         \o toString16(u[2])

Codes(normalized) == [k \in 1..Len(normalized) |-> charCodeAt(normalized[k])]

\* the claim as stated: h := h*31 - h + c, that is 30*h + c
C22_Original ==
  \A i \in InvIds :
    Len(inv[i].normalized) > 0
      => inv[i].fingerprint
           = "v1:" \o HexOf(Magnitude(PolynomialHash(30, <<0, 0>>, Codes(inv[i].normalized))))

\* C22 with the step of the code: h := h*32 - h + c (the shift by 5 bits), that
\* is 31*h + c, truncated to a signed 32-bit integer
C22_RollingHash ==
  \A i \in InvIds :
    Len(inv[i].normalized) > 0
      => inv[i].fingerprint
           = "v1:" \o HexOf(Magnitude(PolynomialHash(31, <<0, 0>>, Codes(inv[i].normalized))))

\* "Please enter your PIN" was fingerprinted: its hash leaves the 32-bit range
\* and ends negative, and the fingerprint is the one the crawl uses for it
C22_Witness ==
  \E i \in InvIds :
    /\ inv[i].text = cPin
    /\ hashLoop(0, inv[i].normalized, 1) < 0
    /\ inv[i].fingerprint = fingerprintPrompt(tPin)

(***************************************************************************)
(* C23.  extractMenuOptions returns one option per menu phrase, in the     *)
(* order of the text: for a text made of phrases "Press <d> for <L>", each *)
(* ended by a sentence end, it returns the options {dtmf: d, label: L} of  *)
(* the phrases in their order, and for a text without menu phrase it       *)
(* returns no option.                                                      *)
(***************************************************************************)
SentenceEnds == {".", "!"}

\* the options of the phrases of a call, in the order of the text
OptionsOfPhrases(c) ==
  [k \in 1..Len(c.phrases) |-> [dtmf |-> c.phrases[k].dtmf, label |-> c.phrases[k].label]]

\* the text of a call is made of phrases "Press <d> for <L>", each followed by
\* one of the marks
PressPhrasesEndedBy(c, marks) ==
  /\ c.greeting = << >>
  /\ \A k \in 1..Len(c.phrases) :
       c.phrases[k].form = "Press d for L" /\ c.phrases[k].separator \in marks

C23_Original ==
  \A i \in InvIds :
    /\ PressPhrasesEndedBy(inv[i], SentenceEnds) => inv[i].options = OptionsOfPhrases(inv[i])
    /\ Len(inv[i].phrases) = 0 => inv[i].options = << >>

\* C23 for phrases ended by a full stop, the mark at which the patterns end a
\* label (an exclamation mark is taken into the label)
C23_OptionsInTextOrder ==
  \A i \in InvIds :
    /\ PressPhrasesEndedBy(inv[i], {"."}) => inv[i].options = OptionsOfPhrases(inv[i])
    /\ Len(inv[i].phrases) = 0 => inv[i].options = << >>

\* the options of "Press 1 for Billing. Press 2 for Support." were extracted
C23_Witness ==
  \E i \in InvIds :
    /\ inv[i].text = << "Press", "1", "for", "Billing", ".", "Press", "2", "for", "Support", "." >>
    /\ inv[i].options = << [dtmf |-> "1", label |-> "Billing"],
                           [dtmf |-> "2", label |-> "Support"] >>

(***************************************************************************)
(* C24.  When a call pauses on a frame F popped from a stack whose rest is *)
(* S, the job's saved resumeState is S with F on top, F as it was popped   *)
(* (path, parentId, depth); the job is waiting_for_input with waitingFor   *)
(* set; and the call returns in that step: it pops no other frame,         *)
(* generates no artifacts and does not complete the job.                   *)
(***************************************************************************)
\* the frame on top of the stack of call i is one the loop pauses on: within
\* maxDepth, its prompt not seen before in the call, without options, asking
\* for input
PauseCase(i) ==
  LET c == inv[i]
      t == ReplayTranscript(c.entryPoint, c.inputType, Last(c.stack).path)
  IN  /\ c.pc = "loop" /\ Len(c.stack) > 0
      /\ Last(c.stack).depth <= maxDepth
      /\ fingerprintPrompt(t) \notin DOMAIN c.visitedFingerprints
      /\ extractMenuOptions(t) = << >>
      /\ t \in {tSelPin, tPin}

C24_PauseSavesStack ==
  [][\A i \in InvIds :
       (PauseCase(i) /\ \E h \in HangupResults : ProcessFrame(i, h))
         => LET j == inv[i].jobId
                F == Last(inv[i].stack)
                S == Front(inv[i].stack)
            IN  /\ jobs'[j].resumeState = << Append(S, F) >>
                /\ jobs'[j].status = "waiting_for_input"
                /\ jobs'[j].waitingFor # Undefined
                /\ jobs'[j].artifacts = jobs[j].artifacts
                /\ inv'[i].pc = "returned"
                /\ inv'[i].stack = Append(S, F)
                /\ inv'[i].inserted = inv[i].inserted + 1
                /\ Last(logs'[i]).type = "warning"]_vars

\* a run has paused with another frame left under the one it paused on, and
\* the job holds both
C24_Witness ==
  \E i \in InvIds :
    LET j == inv[i].jobId IN
    /\ inv[i].kind = "runDiscovery" /\ inv[i].pc = "returned"
    /\ jobs[j].status = "waiting_for_input" /\ jobs[j].waitingFor = "PIN/ID"
    /\ Len(jobs[j].resumeState) = 1
    /\ Len(jobs[j].resumeState[1]) = 2
    /\ jobs[j].resumeState[1] = inv[i].stack
    /\ Last(inv[i].stack).path = <<"2">>
    /\ jobs[j].artifacts = << >>

(***************************************************************************)
(* C25.  A job becomes waiting_for_input only in a step that processes a   *)
(* frame whose prompt is not a loop, has no menu option and contains       *)
(* "enter" or "pin" (in any case).  A frame whose prompt is not a loop,    *)
(* has no option and contains neither is a leaf: the call goes on with the *)
(* next frame.  A frame whose prompt has an option never pauses the call.  *)
(***************************************************************************)
\* the prompts that contain "enter" or "pin", in any case
HasInputIndicator(t) == t \in {tMenu, tSelPin, tPin}

\* the prompt the frame on top of the stack of call i leads to
PromptOfTop(i) ==
  ReplayTranscript(inv[i].entryPoint, inv[i].inputType, Last(inv[i].stack).path)

SeenBefore(i) == fingerprintPrompt(PromptOfTop(i)) \in DOMAIN inv[i].visitedFingerprints

C25_PauseOnlyForInput ==
  [][/\ \A j \in JobIds :
          (jobs[j].status # "waiting_for_input" /\ jobs'[j].status = "waiting_for_input")
            => \E i \in InvIds :
                 /\ inv[i].jobId = j
                 /\ \E h \in HangupResults : ProcessFrame(i, h)
                 /\ ~SeenBefore(i)
                 /\ extractMenuOptions(PromptOfTop(i)) = << >>
                 /\ HasInputIndicator(PromptOfTop(i))
     /\ \A i \in InvIds :
          (\E h \in HangupResults : ProcessFrame(i, h))
            => /\ ( /\ ~SeenBefore(i)
                    /\ extractMenuOptions(PromptOfTop(i)) = << >>
                    /\ ~HasInputIndicator(PromptOfTop(i)) )
                 => /\ inv'[i].pc = "loop"
                    /\ inv'[i].stack = Front(inv[i].stack)
                    /\ jobs' = jobs
               /\ Len(extractMenuOptions(PromptOfTop(i))) > 0
                 => /\ inv'[i].pc = "loop"
                    /\ jobs' = jobs]_vars

\* a run has gone past a leaf and past a menu that mentions a PIN, and has
\* paused on a prompt without options that mentions one
C25_Witness ==
  \E i \in InvIds :
    /\ inv[i].pc = "returned"
    /\ jobs[inv[i].jobId].status = "waiting_for_input"
    /\ \E n \in NodeIds : n[1] = i /\ nodes[n].content = tMenu /\ ~nodes[n].isLoop
    /\ \E n \in NodeIds : n[1] = i /\ nodes[n].content = tInvalidSelection /\ ~nodes[n].isLoop
    /\ \E n \in NodeIds : n[1] = i /\ nodes[n].content = tSelPin /\ n[2] = inv[i].inserted

(***************************************************************************)
(* C26.  A traversal is depth-first, first option first: the children of a *)
(* node are processed in the order in which its options were extracted,    *)
(* and the whole subtree of an option before the next option.  So the      *)
(* nodes of a call are persisted in pre-order: of two nodes of a call, the *)
(* one persisted first is the ancestor of the other or lies, where their   *)
(* paths part, under the option extracted first.                           *)
(***************************************************************************)
\* the place of key d among the options of the prompt that path prefix leads to
OptionIndex(entryPoint, prefix, d) ==
  LET options == extractMenuOptions(IvrPrompt(entryPoint, prefix))
  IN  CHOOSE k \in 1..Len(options) : options[k].dtmf = d

\* path pa comes before path pb in pre-order
PreOrder(entryPoint, pa, pb) ==
  \/ Len(pa) < Len(pb) /\ SubSeq(pb, 1, Len(pa)) = pa
  \/ \E m \in 1..Len(pa) :
       /\ m <= Len(pb)
       /\ SubSeq(pa, 1, m - 1) = SubSeq(pb, 1, m - 1)
       /\ pa[m] # pb[m]
       /\ OptionIndex(entryPoint, SubSeq(pa, 1, m - 1), pa[m])
            < OptionIndex(entryPoint, SubSeq(pa, 1, m - 1), pb[m])

C26_PreOrder ==
  \A a, b \in NodeIds :
    (a[1] = b[1] /\ a # b)
      => (a[2] < b[2] <=> PreOrder(inv[a[1]].entryPoint, nodes[a].path, nodes[b].path))

\* a run has gone through the tree: the main menu, Billing and its two
\* prompts, then Support and the way back to the main menu
C26_Witness ==
  \E i \in InvIds :
    /\ inv[i].entryPoint = phoneTree /\ inv[i].pc = "returned" /\ inv[i].inserted = 6
    /\ \A k \in 1..6 : <<i, k>> \in NodeIds
    /\ [k \in 1..6 |-> nodes[<<i, k>>].path]
         = << << >>, <<"1">>, <<"1", "1">>, <<"1", "2">>, <<"2">>, <<"2", "9">> >>
    /\ jobs[inv[i].jobId].status = "completed"

(***************************************************************************)
(* C27.  A fresh traversal ends: on an IVR whose calls all return and      *)
(* whose prompts have finitely many options, cyclic menus included, every  *)
(* call of runDiscovery returns after finitely many frames, with its job   *)
(* completed, failed or waiting_for_input; and a job becomes completed     *)
(* only in a step of a call whose stack is empty.                          *)
(***************************************************************************)
C27_TraversalEnds ==
  /\ \A i \in 1..MaxInvocations :
       [](i \in InvIds
            => <>(/\ i \in InvIds
                  /\ inv[i].pc = "returned"
                  /\ jobs[inv[i].jobId].status \in SettledStatus))
  /\ [][\A j \in JobIds :
          (jobs[j].status # "completed" /\ jobs'[j].status = "completed")
            => \E i \in InvIds :
                 /\ inv[i].jobId = j /\ inv[i].pc = "loop" /\ inv[i].stack = << >>
                 /\ inv'[i].pc = "returned"]_vars

\* the run on the tree, whose Support menu leads back to the main menu, has
\* met the main menu a second time, cut the branch, and completed
C27_Witness ==
  \E i \in InvIds :
    /\ inv[i].entryPoint = phoneTree /\ inv[i].pc = "returned" /\ inv[i].stack = << >>
    /\ inv[i].metrics.loopsDetected = 1
    /\ jobs[inv[i].jobId].status = "completed"

(***************************************************************************)
(* C28.  Popping a frame deeper than maxDepth changes the stack and the    *)
(* log only: the frame is gone and one debug line is added.  No session is *)
(* created, nothing is dialled, no node is persisted, the visited          *)
(* fingerprints and the job are as before, and the call does not fail.     *)
(***************************************************************************)
C28_PruneChangesStackAndLog ==
  [][\A i \in InvIds :
       ( /\ inv[i].pc = "loop" /\ Len(inv[i].stack) > 0
         /\ Last(inv[i].stack).depth > maxDepth
         /\ <<inv[i], logs[i]>>' # <<inv[i], logs[i]>> )
       => /\ inv'[i] = [inv[i] EXCEPT !.stack = Front(inv[i].stack)]
          /\ Len(logs'[i]) = Len(logs[i]) + 1
          /\ SubSeq(logs'[i], 1, Len(logs[i])) = logs[i]
          /\ Last(logs'[i]).type = "debug"
          /\ nodes' = nodes /\ jobs' = jobs /\ platforms' = platforms
          /\ \A k \in InvIds \ {i} : inv'[k] = inv[k] /\ logs'[k] = logs[k]]_vars

\* a call has dropped a frame of depth maxDepth + 1 and has gone on to complete
\* its job
C28_Witness ==
  \E i \in InvIds :
    /\ \E k \in 1..Len(logs[i]) :
         logs[i][k] = [message |-> "Max depth reached. Pruning branch.", type |-> "debug"]
    /\ inv[i].pc = "returned" /\ inv[i].stack = << >>
    /\ inv[i].metrics.maxDepthReached = maxDepth
    /\ jobs[inv[i].jobId].status = "completed"

(***************************************************************************)
(* C29.  completed and failed are final: once a job is completed or        *)
(* failed, no resumeJob changes its status, and no call of runDiscovery or *)
(* continueDiscovery made for it after a call that completed or failed it  *)
(* changes its status, its artifacts or the nodes of its project.          *)
(***************************************************************************)
\* call i was made for job j after a call that completed or failed j had ended
LaterCall(i, j) ==
  /\ inv[i].jobId = j
  /\ \E k \in inv[i].returnedBefore :
       /\ inv[k].jobId = j /\ inv[k].pc = "returned" /\ Len(logs[k]) > 0
       /\ \/ Last(logs[k]).type = "error"
          \/ Last(logs[k]).message = "Graph traversal complete."

C29_FinalStatusAbsorbing ==
  [][\A j \in JobIds :
       jobs[j].status \in {"completed", "failed"}
         => /\ \A x \in Inputs : resumeJob(j, x) => jobs'[j].status = jobs[j].status
            /\ \A i \in InvIds :
                 (LaterCall(i, j) /\ inv'[i] # inv[i])
                   => /\ jobs'[j].status = jobs[j].status
                      /\ jobs'[j].artifacts = jobs[j].artifacts
                      /\ NodesIn(nodes', jobs[j].projectId) = NodesIn(nodes, jobs[j].projectId)]_vars

(***************************************************************************)
(* C30.  For every persisted node, linkedNodeId is set if and only if      *)
(* isLoop is true; when set it is the id of a node of the same project     *)
(* that the same call persisted earlier, with the same fingerprint and     *)
(* isLoop = false.                                                         *)
(***************************************************************************)
LinkTarget(n, t) ==
  /\ t \in NodeIds
  /\ nodes[t].projectId = nodes[n].projectId
  /\ t[1] = n[1] /\ t[2] < n[2]
  /\ nodes[t].fingerprint = nodes[n].fingerprint
  /\ ~nodes[t].isLoop

C30_LinkedNodeOfLoop ==
  \A n \in NodeIds :
    /\ (nodes[n].linkedNodeId # NoNode) <=> nodes[n].isLoop
    /\ nodes[n].isLoop => LinkTarget(n, nodes[n].linkedNodeId)

(***************************************************************************)
(* C31.  For every persisted node, the number of DTMF entries of its path  *)
(* equals its number of ancestors in the parentId tree: a node with empty  *)
(* path is the root, of type "menu" and label "Main Menu", and a node with *)
(* path p ++ [d] has as parent the node persisted for path p and has label *)
(* "Option d", after a resume with human input as in a fresh run.          *)
(***************************************************************************)
RECURSIVE Ancestors(_)
Ancestors(n) ==
  IF n \notin NodeIds \/ nodes[n].parentId = NoNode THEN 0
  ELSE 1 + Ancestors(nodes[n].parentId)

C31_PathIsTreeDepth ==
  \A n \in NodeIds :
    /\ Len(nodes[n].path) = Ancestors(n)
    /\ IF Len(nodes[n].path) = 0
         THEN /\ nodes[n].parentId = NoNode
              /\ nodes[n].type = "menu"
              /\ nodes[n].label = "Main Menu"
         ELSE /\ nodes[n].parentId \in NodeIds
              /\ nodes[nodes[n].parentId].path = Front(nodes[n].path)
              /\ nodes[n].label = "Option " \o Last(nodes[n].path)

(***************************************************************************)
(* C32.  When a job becomes completed, the metrics of its report agree     *)
(* with the stored tree: nodesDiscovered equals totalNodes and the number  *)
(* of nodes of the project, loopsDetected equals the number of those nodes *)
(* with isLoop = true, and maxDepthReached is at most maxDepth, after      *)
(* suspend/resume cycles as in an uninterrupted run.                       *)
(***************************************************************************)
BecomesCompleted(j) ==
  /\ jobs'[j].status = "completed"
  /\ jobs'[j] # jobs[j]

C32_ReportAgreesWithTree ==
  [][\A j \in JobIds :
       BecomesCompleted(j)
         => LET report == jobs'[j].artifacts[1].report
                stored == NodesIn(nodes', jobs[j].projectId)
            IN  /\ report.nodesDiscovered = report.totalNodes
                /\ report.totalNodes = Cardinality(stored)
                /\ report.loopsDetected = Cardinality({n \in stored : nodes'[n].isLoop})
                /\ report.maxDepthReached <= maxDepth]_vars

(***************************************************************************)
(* C33.  A telephony session accepts sendDtmf only while connected: on a   *)
(* Simulated or Real session, sendDtmf issued before a successful dial or  *)
(* after hangup fails with "Call not connected" without changing the       *)
(* session's position and (Real) without contacting the backend; hangup on *)
(* a session that is not connected is a no-op; hangup resets a Simulated   *)
(* session's position to the root, so that a later dial replays from the   *)
(* welcome prompt.                                                         *)
(***************************************************************************)
\* a dial has returned and no hangup was called since
Connected(o) ==
  \E k \in 1..Len(o.history) :
    /\ o.history[k].method = "dial" /\ o.history[k].ok
    /\ \A m \in (k + 1)..Len(o.history) : o.history[m].method # "hangup"

SameSession(o1, o2) ==
  /\ o2.sim = o1.sim /\ o2.real = o1.real
  /\ o2.keys = o1.keys /\ o2.requests = o1.requests

C33_SendDtmfOnlyWhileConnected ==
  [][(Len(inv) = 1 /\ Len(inv') = 1 /\ inv'[1] # inv[1])
       => LET o == inv[1]
              o2 == inv'[1]
              e == Last(o2.history)
          IN  /\ (e.method = "sendDtmf" /\ ~Connected(o))
                   => /\ ~e.ok /\ e.transcript = "Call not connected"
                      /\ SameSession(o, o2)
              /\ (e.method = "hangup" /\ ~Connected(o))
                   => (e.ok /\ SameSession(o, o2))
              /\ (e.method = "hangup" /\ o.kind = "SimulatedTelephonySession")
                   => o2.sim.currentNode = 0
              /\ (e.method = "dial" /\ o.kind = "SimulatedTelephonySession" /\ ~Connected(o))
                   => /\ e.ok /\ e.transcript = o.entryPoint
                      /\ o2.sim.currentNode = 0]_vars

\* a simulated session that was dialled, moved to the branch of key 2, hung
\* up, and then refused a key, back at the root
C33_Witness ==
  /\ Len(inv) = 1
  /\ inv[1].kind = "SimulatedTelephonySession"
  /\ Len(inv[1].history) = 4
  /\ inv[1].history[1].method = "dial"
  /\ inv[1].history[2].method = "sendDtmf" /\ inv[1].history[2].transcript = tSelPin
  /\ inv[1].history[3].method = "hangup"
  /\ inv[1].history[4].method = "sendDtmf"
  /\ inv[1].history[4].transcript = "Call not connected"
  /\ inv[1].sim.currentNode = 0

(***************************************************************************)
(* C34.  In the telephony backend, every accepted /dial or /send-dtmf      *)
(* request for a known call receives exactly one HTTP response, never zero *)
(* and never two, under every interleaving of transcript events, the       *)
(* max-wait timer, the silence timer, a second gathering request on the    *)
(* same call and a /hangup for that call arriving while the request is     *)
(* pending.                                                                *)
(***************************************************************************)
Accepted(r) ==
  /\ Len(inv) = 1 /\ r \in DOMAIN inv[1].requests
  /\ inv[1].requests[r].accepted

Responses(r) == inv[1].requests[r].responses

C34_ExactlyOneResponse ==
  /\ [](\A r \in ServerRequests : Accepted(r) => Responses(r) <= 1)
  /\ \A r \in ServerRequests : Accepted(r) ~> (Accepted(r) /\ Responses(r) = 1)

====
